---- MODULE Spec2Model ----
(***************************************************************************)
(* A model of the ELS request signer (package els): the AccessKey          *)
(* predicates and APISigner.Sign.                                          *)
(*                                                                         *)
(* Time.  A time.Time is the record [t, off]: t counts half-minutes (one   *)
(* tick is 30 s) since 0001-01-01T00:00:00Z, the instant of Go's zero      *)
(* time.Time{}, and off is the offset of the value's location from UTC,    *)
(* in ticks.  A time.Duration is a number of ticks.  Go keeps a Duration   *)
(* in an int64 of nanoseconds and Time.Sub saturates at its limits; the    *)
(* limits are kept here, expressed in ticks.                               *)
(*                                                                         *)
(* Text.  Strings are TLA+ strings, joined with \o as the code joins       *)
(* them.  MD5 digests are the real digests of the bodies the model draws;  *)
(* HMAC-SHA256 followed by base64 is a symbolic, injective term over the   *)
(* key and the message.                                                    *)
(*                                                                         *)
(* nil.  A pointer or interface that may be nil is a sequence: <<>> is     *)
(* nil and <<v>> holds v.                                                  *)
(***************************************************************************)
EXTENDS Integers, Sequences, FiniteSets, TLC

VARIABLES
    accessKey,  \* APISigner.accessKey, the credential the signer holds
    r,          \* the caller's *http.Request: <<>> (nil) or <<request>>
    ret,        \* <<>> or <<record of the last Sign call>>
    hist,       \* <<>> or <<summary of the successful Sign before the last>>
    vu,         \* the ValidUntil call: [a, now, in, called, result]
    api,        \* the EDAPICaller: its APIHandler fields and requestTimeout
    lastTimeout,\* EDAPICaller.lastTimeout
    rw,         \* EDAPICaller's RWMutex: [writer, readers]
    clock,      \* the time, in ticks after TestNow, that time.Now and tp.Now give
    callers,    \* the goroutines that call the EDAPICaller
    reqs,       \* each caller's *http.Request: <<>> or <<request>>
    calls,      \* each caller's call of Do, Get or LastTimeout
    cak,        \* the CreateAccessKey call
    mock,       \* the mock APICaller: [mu, Calls, CallsMade, LastTo]
    invs,       \* each goroutine's invocation of the mock APICaller
    seen        \* <<>> or <<what the test last read from the mock APICaller>>

signerVars == <<accessKey, r, ret, hist>>

callerVars == <<api, lastTimeout, rw, clock, callers, reqs, calls>>

mockVars == <<mock, invs, seen>>

vars == <<accessKey, r, ret, hist, vu, api, lastTimeout, rw, clock, callers,
          reqs, calls, cak, mock, invs, seen>>

(***************************************************************************)
(* time                                                                    *)
(***************************************************************************)

\* time.Minute, in ticks of 30 s.
Minute == 2

Hour == 60 * Minute

Day == 24 * Hour

\* The largest time.Duration (2^63 - 1 ns), in whole ticks.
MaxDuration == 307445734

MinDuration == (0 - MaxDuration) - 1

\* 2015-01-01T00:00:00Z, the `now` of the test suites, in ticks since the
\* zero time (735598 days).
TestNow == 735598 * Day

\* time.Time{}
ZeroTime == [t |-> 0, off |-> 0]

UTCOffset == 0

\* A fixed zone one hour east of UTC.
CETOffset == Hour

\* t.Sub(u): the difference of the instants, saturated to the Duration range.
Sub(t, u) ==
    LET d == t.t - u.t
    IN  IF d > MaxDuration THEN MaxDuration
        ELSE IF d < MinDuration THEN MinDuration
        ELSE d

\* t.UTC(): the same instant, located in UTC.
UTC(t) == [t |-> t.t, off |-> UTCOffset]

Pad2(n) == IF n < 10 THEN "0" \o ToString(n) ELSE ToString(n)

Pad4(n) ==
    IF n < 10 THEN "000" \o ToString(n)
    ELSE IF n < 100 THEN "00" \o ToString(n)
    ELSE IF n < 1000 THEN "0" \o ToString(n)
    ELSE ToString(n)

\* The proleptic Gregorian date of day number `days` (day 0 is 0001-01-01).
CivilDate(days) ==
    LET z   == days + 306
        era == z \div 146097
        doe == z - era * 146097
        yoe == (doe - doe \div 1460 + doe \div 36524 - doe \div 146096) \div 365
        doy == doe - (365 * yoe + yoe \div 4 - yoe \div 100)
        mp  == (5 * doy + 2) \div 153
        d   == doy - (153 * mp + 2) \div 5 + 1
        m   == IF mp < 10 THEN mp + 3 ELSE mp - 9
        y   == yoe + era * 400 + (IF m <= 2 THEN 1 ELSE 0)
    IN  [year |-> y, month |-> m, day |-> d]

\* The numeric zone suffix of RFC3339: "Z" for a zero offset, else +hh:mm.
ZoneSuffix(off) ==
    IF off = 0 THEN "Z"
    ELSE LET a == IF off < 0 THEN 0 - off ELSE off
         IN  (IF off < 0 THEN "-" ELSE "+")
             \o Pad2(a \div Hour) \o ":" \o Pad2((a % Hour) \div Minute)

\* t.Format(time.RFC3339): the wall clock of t in its own location.
FormatRFC3339(t) ==
    LET local == t.t + t.off
        date  == CivilDate(local \div Day)
        tod   == local % Day
    IN  Pad4(date.year) \o "-" \o Pad2(date.month) \o "-" \o Pad2(date.day)
        \o "T" \o Pad2(tod \div Hour) \o ":" \o Pad2((tod % Hour) \div Minute)
        \o ":" \o Pad2((tod % Minute) * 30) \o ZoneSuffix(t.off)

(***************************************************************************)
(* AccessKey                                                               *)
(***************************************************************************)

\* A variant of ValidUntil that accepts a key expiring exactly at the horizon.
ValidUntil_AtHorizon(a, now, in) ==
    (a.ExpiryDate # ZeroTime) /\ (Sub(a.ExpiryDate, now) >= in)

\* AccessKey.ValidUntil
ValidUntil(a, now, in) ==
    (a.ExpiryDate # ZeroTime) /\ (Sub(a.ExpiryDate, now) > in)

(***************************************************************************)
(* text and digests                                                        *)
(***************************************************************************)

DefaultAPIVersion == "1.0"

RequiredContentType == "application/json;charset=utf-8"

ErrNoRequest == "No Request"

ErrExpiredAccessKey == "Expired Access Key"

ErrRequestInvalidURL == "Invalid URL"

\* The error of a body reader that fails.
ErrBodyRead == "read error"

\* A nil error.
NilError == "<nil>"

\* The body of the test suite's request.
JSONBody == "{\"title\":\"ATitle\"}"

\* strings.HasPrefix
HasPrefix(s, prefix) ==
    Len(s) >= Len(prefix) /\ SubSeq(s, 1, Len(prefix)) = prefix

\* hex.EncodeToString(md5.Sum(b)), for the bodies the model draws.
MD5Hex(b) ==
    CASE b = ""       -> "d41d8cd98f00b204e9800998ecf8427e"
      [] b = JSONBody -> "bf7979fb1f989d98a9b98be27c131029"
      [] OTHER        -> "md5(" \o b \o ")"

\* base64.StdEncoding.EncodeToString(HMAC-SHA256(key, msg)), as a term.
HmacSha256Base64(key, msg) ==
    "base64(hmac-sha256(" \o key \o "," \o msg \o "))"

(***************************************************************************)
(* requests                                                                *)
(***************************************************************************)

HeaderKeys == {"Authorization", "X-Els-Date", "Content-Type"}

\* An http.Header without values.
EmptyHeader == [k \in HeaderKeys |-> <<>>]

\* http.Header.Add: appends to the values of the key.
HeaderAdd(h, key, value) == [h EXCEPT ![key] = Append(@, value)]

\* http.Header.Get: the first value of the key, "" when there is none.
HeaderGet(h, key) == IF h[key] = <<>> THEN "" ELSE h[key][1]

\* A body reader holding the bytes b, as bytes.NewBuffer(b) under a NopCloser.
NewBuffer(b) == [unread |-> b, fails |-> FALSE]

\* ioutil.ReadAll(body): the bytes read, the error, and the reader afterwards.
ReadAll(body) ==
    [b    |-> body.unread,
     err  |-> IF body.fails THEN ErrBodyRead ELSE NilError,
     rest |-> [body EXCEPT !.unread = ""]]

\* http.NewRequest(method, path?query, body) as the callers use it.
NewRequestValue(method, path, query, body) ==
    [Method |-> method,
     URL    |-> [Scheme |-> "", Host |-> "", Path |-> path, RawQuery |-> query],
     Header |-> EmptyHeader,
     Body   |-> body]

(***************************************************************************)
(* APISigner.Sign                                                          *)
(***************************************************************************)

\* A variant that formats `now` in its own location.
UtcStr_Local(now) == FormatRFC3339(now)

\* utcStr := now.UTC().Format(time.RFC3339)
UtcStr(now) == FormatRFC3339(UTC(now))

\* A variant that writes the content type before the digest.
BodyFields_Swapped(body, b) ==
    IF body # <<>>
    THEN RequiredContentType \o "\n" \o MD5Hex(b) \o "\n"
    ELSE "\n\n"

\* The digest and content-type lines of the fingerprint.
BodyFields(body, b) ==
    IF body # <<>>
    THEN MD5Hex(b) \o "\n" \o RequiredContentType \o "\n"
    ELSE "\n\n"

\* fingerprint := strings.Join(ss, "")
Fingerprint(req, b, utcStr) ==
    req.Method \o "\n" \o BodyFields(req.Body, b) \o utcStr \o "\n" \o req.URL.Path

\* auth := "ELS " + id + ":" + base64(hmac(secret, fingerprint))
Authorization(k, fingerprint) ==
    "ELS " \o k.ID \o ":" \o HmacSha256Base64(k.SecretAccessKey, fingerprint)

\* A variant that puts the local time in the date header.
SignedHeader_LocalDate(h, auth, utcStr, now) ==
    HeaderAdd(HeaderAdd(HeaderAdd(h,
        "Authorization", auth),
        "X-Els-Date", FormatRFC3339(now)),
        "Content-Type", RequiredContentType)

\* The three r.Header.Add calls.
SignedHeader(h, auth, utcStr, now) ==
    HeaderAdd(HeaderAdd(HeaderAdd(h,
        "Authorization", auth),
        "X-Els-Date", utcStr),
        "Content-Type", RequiredContentType)

\* A variant that leaves the drained reader in place.
SignedBody_Drained(rd) == <<rd.rest>>

\* r.Body = ioutil.NopCloser(bytes.NewBuffer(b))
SignedBody(rd) == <<NewBuffer(rd.b)>>

\* A variant that only asks the credential to be valid at `now`.
SignPrecondition_NoHorizon(k, rq, now) ==
    IF rq = <<>> THEN ErrNoRequest
    ELSE IF ~HasPrefix(rq[1].URL.Path, "/1.0/") THEN ErrRequestInvalidURL
    ELSE IF ~ValidUntil(k, now, 0) THEN ErrExpiredAccessKey
    ELSE NilError

\* A variant that checks the credential before the path.
SignPrecondition_KeyFirst(k, rq, now) ==
    IF rq = <<>> THEN ErrNoRequest
    ELSE IF ~ValidUntil(k, now, Minute) THEN ErrExpiredAccessKey
    ELSE IF ~HasPrefix(rq[1].URL.Path, "/1.0/") THEN ErrRequestInvalidURL
    ELSE NilError

\* A variant that checks the credential before it looks at the request.
SignPrecondition_KeyBeforeRequest(k, rq, now) ==
    IF ~ValidUntil(k, now, Minute) THEN ErrExpiredAccessKey
    ELSE IF rq = <<>> THEN ErrNoRequest
    ELSE IF ~HasPrefix(rq[1].URL.Path, "/1.0/") THEN ErrRequestInvalidURL
    ELSE NilError

\* The checks Sign makes before it touches the request.
SignPrecondition(k, rq, now) ==
    IF rq = <<>> THEN ErrNoRequest
    ELSE IF ~HasPrefix(rq[1].URL.Path, "/1.0/") THEN ErrRequestInvalidURL
    ELSE IF ~ValidUntil(k, now, Minute) THEN ErrExpiredAccessKey
    ELSE NilError

\* A variant that dates the request before it checks it.
Refused_Dated(e, rq, now) ==
    [err |-> e,
     r |-> IF rq = <<>> THEN rq
           ELSE <<[rq[1] EXCEPT
                     !.Header = HeaderAdd(@, "X-Els-Date", UtcStr(now))]>>,
     fingerprint |-> "", auth |-> "", utcStr |-> ""]

\* return ErrNoRequest, ErrRequestInvalidURL or ErrExpiredAccessKey: Sign has
\* not touched the request and computed nothing.
Refused(e, rq, now) ==
    [err |-> e, r |-> rq, fingerprint |-> "", auth |-> "", utcStr |-> ""]

\* The outcome of s.Sign(r, now): the error, the request afterwards, and the
\* locals fingerprint, auth and utcStr ("" where the call did not compute them).
SignOutcome(k, rq, now) ==
    LET pre == SignPrecondition(k, rq, now)
        failed(e, rq2) ==
            [err |-> e, r |-> rq2, fingerprint |-> "", auth |-> "", utcStr |-> ""]
    IN  IF pre # NilError THEN Refused(pre, rq, now)
        ELSE
            LET req    == rq[1]
                utcStr == UtcStr(now)
                rd     == IF req.Body # <<>> THEN ReadAll(req.Body[1])
                          ELSE [b |-> "", err |-> NilError, rest |-> <<>>]
            IN  IF rd.err # NilError
                THEN failed(rd.err, <<[req EXCEPT !.Body = <<rd.rest>>]>>)
                ELSE
                    LET fp   == Fingerprint(req, rd.b, utcStr)
                        auth == Authorization(k, fp)
                        body == IF req.Body # <<>> THEN SignedBody(rd) ELSE <<>>
                    IN  [err         |-> NilError,
                         r           |-> <<[req EXCEPT
                                            !.Body = body,
                                            !.Header = SignedHeader(@, auth, utcStr, now)]>>,
                         fingerprint |-> fp,
                         auth        |-> auth,
                         utcStr      |-> utcStr]

(***************************************************************************)
(* inputs                                                                  *)
(***************************************************************************)

\* The latest `now` drawn, in ticks after TestNow.
MaxTick == 2

\* The most values one header may hold before the model stops signing.
MaxHeaderValues == 2

Locations == {UTCOffset, CETOffset}

Nows == {[t |-> TestNow + k, off |-> o] : k \in 0..MaxTick, o \in Locations}

Expiries ==
    {ZeroTime}
    \cup {[t |-> TestNow + k, off |-> UTCOffset] :
             k \in {0 - Minute, Minute, 2 * Minute, Hour}}

AccessKeyIDs == {"AccessKeyID"}

SecretAccessKeys == {"secretAccessKey", "otherSecret"}

AccessKeys ==
    [ID : AccessKeyIDs, SecretAccessKey : SecretAccessKeys,
     ExpiryDate : Expiries, Email : {"example@test.com"}]

Methods == {"GET", "POST"}

Paths == {"/1.0/path/to/route", "/invalid/path/to/route", "/1.0"}

Queries == {"query1&query2"}

Bodies == {<<>>, <<NewBuffer("")>>, <<NewBuffer(JSONBody)>>,
           <<[unread |-> JSONBody, fails |-> TRUE]>>}

\* The inputs of the ValidUntil calls.
ValidUntilExpiries ==
    Expiries \cup {[t |-> 0, off |-> CETOffset], [t |-> Minute, off |-> UTCOffset],
                   [t |-> TestNow - Minute, off |-> UTCOffset]}

ValidUntilNows == Nows \cup {ZeroTime}

Durations == {0 - Minute, 0, 1, Minute, Hour}

NoCall == [a |-> [ID |-> "", SecretAccessKey |-> "", ExpiryDate |-> ZeroTime, Email |-> ""],
           now |-> ZeroTime, in |-> 0, called |-> FALSE, result |-> FALSE]

(***************************************************************************)
(* the EDAPICaller and the APIHandler: construction                        *)
(***************************************************************************)

DefaultAPIScheme == "https"

DefaultAPIDomain == "api.elasticlicensing.com"

\* NewAPIHandler(c)
NewAPIHandler ==
    [Scheme |-> DefaultAPIScheme, Domain |-> DefaultAPIDomain,
     Version |-> DefaultAPIVersion]

\* NewEDAPICaller(c, tp, timeout, apiVersion): the handler's fields and the
\* request timeout.
NewEDAPICaller(timeout, apiVersion) ==
    [Scheme         |-> NewAPIHandler.Scheme,
     Domain         |-> NewAPIHandler.Domain,
     Version        |-> IF apiVersion # "" /\ apiVersion # DefaultAPIVersion
                        THEN apiVersion ELSE NewAPIHandler.Version,
     requestTimeout |-> timeout]

\* A free sync.RWMutex.
FreeRWMutex == [writer |-> <<>>, readers |-> {}]

\* No CreateAccessKey call.
NoCreate == [pc |-> "none"]

\* An EDAPICaller nobody calls.
UnusedCaller ==
    /\ api = NewEDAPICaller(1, "")
    /\ lastTimeout = ZeroTime
    /\ rw = FreeRWMutex
    /\ clock = 0
    /\ callers = {}
    /\ reqs = <<>>
    /\ calls = <<>>

\* NewAPICaller() of package mock: no expected calls, a free lock.
NewAPICaller ==
    [mu |-> <<>>, Calls |-> <<>>, CallsMade |-> 0, LastTo |-> ZeroTime]

\* A mock APICaller nobody uses.
UnusedMock ==
    /\ mock = NewAPICaller
    /\ invs = <<>>
    /\ seen = <<>>

\* A signer nobody calls.
UnusedSigner ==
    /\ r = <<>>
    /\ ret = <<>>
    /\ hist = <<>>
    /\ vu = NoCall

(***************************************************************************)
(* the signer and its caller                                               *)
(***************************************************************************)

\* The summary of a successful Sign call, kept to compare it with the next.
Summary(call) ==
    [now    |-> call.now,
     Method |-> call.pre[1].Method,
     Path   |-> call.pre[1].URL.Path,
     Body   |-> call.pre[1].Body,
     auth   |-> call.auth]

NextHist ==
    IF ret # <<>> /\ ret[1].err = NilError THEN <<Summary(ret[1])>> ELSE hist

\* NewAPISigner(k) with a non-nil k; the caller holds no request yet.
Init ==
    /\ accessKey \in AccessKeys
    /\ r = <<>>
    /\ ret = <<>>
    /\ hist = <<>>
    /\ vu = NoCall
    /\ UnusedCaller
    /\ cak = NoCreate
    /\ UnusedMock

\* The caller builds a request, as buildRequest does with http.NewRequest.
NewRequest(method, path, query, body) ==
    /\ r' = <<NewRequestValue(method, path, query, body)>>
    /\ ret' = <<>>
    /\ hist' = NextHist
    /\ UNCHANGED <<mockVars, accessKey, vu, callerVars, cak>>

\* s.Sign(r, now)
Sign(now) ==
    /\ r # <<>> => Len(r[1].Header["Authorization"]) < MaxHeaderValues
    /\ LET out == SignOutcome(accessKey, r, now)
       IN  /\ r' = out.r
           /\ ret' = <<[now         |-> now,
                        pre         |-> r,
                        err         |-> out.err,
                        fingerprint |-> out.fingerprint,
                        auth        |-> out.auth,
                        utcStr      |-> out.utcStr]>>
    /\ hist' = NextHist
    /\ UNCHANGED <<mockVars, accessKey, vu, callerVars, cak>>

Next ==
    \/ \E m \in Methods, p \in Paths, q \in Queries, b \in Bodies :
          NewRequest(m, p, q, b)
    \/ \E now \in Nows : Sign(now)

Spec == Init /\ [][Next]_vars

(***************************************************************************)
(* AccessKey.ValidUntil on its own                                         *)
(***************************************************************************)

InitValidUntil ==
    /\ accessKey \in {k \in AccessKeys : k.ExpiryDate = ZeroTime
                                         /\ k.SecretAccessKey = "secretAccessKey"}
    /\ r = <<>>
    /\ ret = <<>>
    /\ hist = <<>>
    /\ UnusedCaller
    /\ cak = NoCreate
    /\ UnusedMock
    /\ \E a \in [ID : AccessKeyIDs, SecretAccessKey : {"secretAccessKey"},
                 ExpiryDate : ValidUntilExpiries, Email : {"example@test.com"}],
          now \in ValidUntilNows, in \in Durations :
          vu = [a |-> a, now |-> now, in |-> in, called |-> FALSE, result |-> FALSE]

\* bResult = sut.ValidUntil(now, in)
CallValidUntil ==
    /\ ~vu.called
    /\ vu' = [vu EXCEPT !.called = TRUE, !.result = ValidUntil(vu.a, vu.now, vu.in)]
    /\ UNCHANGED <<mockVars, signerVars, callerVars, cak>>

NextValidUntil == CallValidUntil

SpecValidUntil == InitValidUntil /\ [][NextValidUntil]_vars

(***************************************************************************)
(* URLs, contexts and signers as the EDAPICaller sees them                 *)
(***************************************************************************)

\* strings.Index(s, c) for a one-character c, counted from 1; 0 when absent.
IndexOf(s, c) ==
    LET at == {i \in 1..Len(s) : SubSeq(s, i, i) = c}
    IN  IF at = {} THEN 0 ELSE CHOOSE i \in at : \A j \in at : i <= j

ErrMissingScheme == "missing protocol scheme"

\* url.Parse as http.NewRequest uses it: scheme, host, path and raw query of
\* url, or the error (URLs without escapes, user info and fragment).
ParseURL(url) ==
    LET colon  == IndexOf(url, ":")
        slash  == IndexOf(url, "/")
        scheme == IF colon > 1 /\ (slash = 0 \/ colon < slash)
                  THEN SubSeq(url, 1, colon - 1) ELSE ""
        rest   == IF scheme = "" THEN url ELSE SubSeq(url, colon + 1, Len(url))
        qm     == IndexOf(rest, "?")
        noq    == IF qm = 0 THEN rest ELSE SubSeq(rest, 1, qm - 1)
        query  == IF qm = 0 THEN "" ELSE SubSeq(rest, qm + 1, Len(rest))
        auth   == HasPrefix(noq, "//")
        after  == IF auth THEN SubSeq(noq, 3, Len(noq)) ELSE noq
        hend   == IndexOf(after, "/")
        host   == IF ~auth THEN ""
                  ELSE IF hend = 0 THEN after ELSE SubSeq(after, 1, hend - 1)
        path   == IF ~auth THEN noq
                  ELSE IF hend = 0 THEN "" ELSE SubSeq(after, hend, Len(after))
    IN  IF colon = 1
        THEN [err |-> ErrMissingScheme,
              URL |-> [Scheme |-> "", Host |-> "", Path |-> "", RawQuery |-> ""]]
        ELSE [err |-> NilError,
              URL |-> [Scheme |-> scheme, Host |-> host, Path |-> path,
                       RawQuery |-> query]]

\* http.NewRequest(method, url, body): the error and the request.
HTTPNewRequest(method, url, body) ==
    LET u == ParseURL(url)
    IN  [err |-> u.err,
         r   |-> IF u.err # NilError THEN <<>>
                 ELSE <<[Method |-> method, URL |-> u.URL,
                         Header |-> EmptyHeader, Body |-> body]>>]

DeadlineExceeded == "context deadline exceeded"

ErrDial == "dial error"

\* The error of a connection the server closed after it read the request.
ErrConnectionClosed == "EOF"

\* context.Background()
Background == [deadline |-> <<>>, cancelled |-> FALSE]

\* context.WithTimeout(parent, d) at time clk: the earlier deadline wins.
WithTimeout(parent, clk, d) ==
    [deadline  |-> IF parent.deadline # <<>> /\ parent.deadline[1] <= clk + d
                   THEN parent.deadline ELSE <<clk + d>>,
     cancelled |-> parent.cancelled]

\* The context is done at time clk.
CtxDone(ctx, clk) ==
    ctx.cancelled \/ (ctx.deadline # <<>> /\ ctx.deadline[1] <= clk)

\* ctx.Err() at time clk.
CtxErr(ctx, clk) ==
    IF ctx.deadline # <<>> /\ ctx.deadline[1] <= clk THEN DeadlineExceeded
    ELSE IF ctx.cancelled THEN "context canceled"
    ELSE NilError

\* tp.Now()
TimeProviderNow(clk) == [t |-> TestNow + clk, off |-> UTCOffset]

ErrDummy == "dummy error"

\* The Signer values handed to Do: none, the test suite's DummySigner with
\* and without an error to return, and an APISigner holding accessKey.
NoSigner == <<>>

DummySigner(errToReturn) == <<[kind |-> "dummy", ErrToReturn |-> errToReturn]>>

APISigner == <<[kind |-> "api", ErrToReturn |-> NilError]>>

\* The error and the request of an APISigner's Sign call.
SignResult(out) == [err |-> out.err, r |-> out.r[1]]

\* s.Sign(r, now) for the signer s: the error and the request afterwards.
SignerSign(s, k, req, now) ==
    IF s[1].kind = "dummy"
    THEN [err |-> s[1].ErrToReturn,
          r   |-> [req EXCEPT !.Header =
                       HeaderAdd(HeaderAdd(@, "Authorization", "some auth"),
                                 "X-Els-Date", FormatRFC3339(UTC(now)))]]
    ELSE SignResult(SignOutcome(k, <<req>>, now))

(***************************************************************************)
(* EDAPICaller.Do, Get and LastTimeout                                     *)
(***************************************************************************)

\* A variant that bounds every call by the request timeout.
DoContext_Layered(a, ctxArg, clk) ==
    WithTimeout(IF ctxArg = <<>> THEN Background ELSE ctxArg[1],
                clk, a.requestTimeout)

\* The context the exchange runs under: the caller's, or a default one.
DoContext(a, ctxArg, clk) ==
    IF ctxArg = <<>> THEN WithTimeout(Background, clk, a.requestTimeout)
    ELSE ctxArg[1]

\* A variant that leaves the host of the request as it is.
CompleteURL_KeepHost(a, req, isELSAPI) ==
    IF isELSAPI
    THEN [req EXCEPT !.URL.Scheme = a.Scheme,
                     !.URL.Path = "/" \o a.Version \o @]
    ELSE req

\* A variant that completes the URL of every request.
CompleteURL_Always(a, req, isELSAPI) ==
    [req EXCEPT !.URL.Scheme = a.Scheme,
                !.URL.Host = a.Domain,
                !.URL.Path = "/" \o a.Version \o @]

\* if isELSAPI { u.Scheme, u.Host, u.Path = ... }
CompleteURL(a, req, isELSAPI) ==
    IF isELSAPI
    THEN [req EXCEPT !.URL.Scheme = a.Scheme,
                     !.URL.Host = a.Domain,
                     !.URL.Path = "/" \o a.Version \o @]
    ELSE req

\* A variant that goes on to the exchange when signing failed.
SignFailed_Ignored(err) == FALSE

\* if err := s.Sign(r, a.tp.Now()); err != nil { return nil, err }
SignFailed(err) == err # NilError

\* A variant that returns the transport's error also when the context is done.
CtxhttpErr_Raw(ctx, clk, transportErr) == transportErr

\* ctxhttp.Do's error for a failed exchange: ctx.Err() when the context is done.
CtxhttpErr(ctx, clk, transportErr) ==
    IF CtxDone(ctx, clk) THEN CtxErr(ctx, clk) ELSE transportErr

\* A variant that hands the caller a response without its body.
DoResponse_Stripped(resp) == [resp EXCEPT !.Body = ""]

\* return resp, err
DoResponse(resp) == resp

\* The most Do calls the model makes with one request.
MaxAttempts == 2

\* The most requests one caller makes, built by itself or by Get.
MaxRequests == 1

\* The latest time the model reaches, in ticks after TestNow.
MaxClock == 2

\* The most goroutines that call one EDAPICaller at a time.
NumCallers == 2

\* A caller between calls, with no call made yet.
IdleCall ==
    [op |-> "none", pc |-> "idle", done |-> FALSE,
     url |-> "", ctxArg |-> <<>>, signer |-> NoSigner, isELSAPI |-> FALSE,
     pre |-> <<>>, ctx |-> Background, synth |-> FALSE, start |-> 0,
     sent |-> <<>>, received |-> <<>>, resp |-> <<>>, err |-> NilError,
     t |-> ZeroTime, attempts |-> 0, requests |-> 0,
     read |-> FALSE, value |-> ZeroTime]

\* The caller p builds a request with http.NewRequest.
CallerNewRequest(p, method, url, body) ==
    /\ calls[p].pc = "idle"
    /\ calls[p].requests < MaxRequests
    /\ HTTPNewRequest(method, url, body).err = NilError
    /\ reqs' = [reqs EXCEPT ![p] = HTTPNewRequest(method, url, body).r]
    /\ calls' = [calls EXCEPT ![p] =
                    [IdleCall EXCEPT !.requests = calls[p].requests + 1]]
    /\ UNCHANGED <<mockVars, api, lastTimeout, rw, clock, callers, signerVars, vu, cak>>

\* if s != nil { err := s.Sign(r, a.tp.Now()) }: the error and the request.
DoSign(s, completed) ==
    IF s = NoSigner THEN [err |-> NilError, r |-> completed]
    ELSE SignerSign(s, accessKey, completed, TimeProviderNow(clock))

\* Do from the signature up to the exchange, for the call record c, the
\* request req as it was passed, the context ctx and the signer's result.
DoAfterSign(c, req, ctxArg, s, isELSAPI, ctx, signed) ==
    LET stop == SignFailed(signed.err)
    IN  [r |-> signed.r,
         c |-> [c EXCEPT
                  !.pc = IF stop THEN "idle" ELSE "exchange",
                  !.done = stop,
                  !.ctxArg = ctxArg, !.signer = s, !.isELSAPI = isELSAPI,
                  !.pre = <<req>>,
                  !.ctx = IF stop /\ ctxArg = <<>>
                          THEN [ctx EXCEPT !.cancelled = TRUE] ELSE ctx,
                  !.synth = (ctxArg = <<>>), !.start = clock,
                  !.sent = IF stop THEN <<>> ELSE <<signed.r>>,
                  !.received = <<>>, !.resp = <<>>,
                  !.err = IF stop THEN signed.err ELSE NilError,
                  !.t = ZeroTime, !.read = FALSE, !.value = ZeroTime,
                  !.attempts = c.attempts + 1]]

\* Do up to the exchange, for the call record c and the request req: the
\* context, the completed URL and the signature, or the signer's error.
DoBegin(c, req, ctxArg, s, isELSAPI) ==
    DoAfterSign(c, req, ctxArg, s, isELSAPI, DoContext(api, ctxArg, clock),
                DoSign(s, CompleteURL(api, req, isELSAPI)))

\* The caller p goes on with the request and the call record of b.
DoProceed(p, b) ==
    /\ reqs' = [reqs EXCEPT ![p] = <<b.r>>]
    /\ calls' = [calls EXCEPT ![p] = b.c]

\* The kind of context a caller hands to Do: none, one without a deadline or
\* one with a deadline.
CtxKind(ctxArg) ==
    IF ctxArg = <<>> THEN "nil"
    ELSE IF ctxArg[1].deadline = <<>> THEN "background" ELSE "timeout"

\* a.Do(ctx, r, s, isELSAPI) with a request not passed to Do before, from the
\* call up to the exchange.
DoStart(p, ctxArg, s, isELSAPI) ==
    /\ calls[p].pc = "idle"
    /\ reqs[p] # <<>>
    /\ calls[p].attempts = 0
    /\ DoProceed(p, DoBegin([calls[p] EXCEPT !.op = "Do", !.url = ""],
                            reqs[p][1], ctxArg, s, isELSAPI))
    /\ UNCHANGED <<mockVars, api, lastTimeout, rw, clock, callers, signerVars, vu, cak>>

\* The caller p retries: a.Do with the request of its last Do call, the same
\* signer and isELSAPI, and a context of the same kind.
DoRetry(p, ctxArg) ==
    /\ calls[p].pc = "idle"
    /\ calls[p].op = "Do"
    /\ calls[p].done
    /\ reqs[p] # <<>>
    /\ calls[p].attempts < MaxAttempts
    /\ CtxKind(ctxArg) = CtxKind(calls[p].ctxArg)
    /\ DoProceed(p, DoBegin(calls[p], reqs[p][1], ctxArg,
                            calls[p].signer, calls[p].isELSAPI))
    /\ UNCHANGED <<mockVars, api, lastTimeout, rw, clock, callers, signerVars, vu, cak>>

\* A variant of Get that builds a POST request.
GetRequest_Post(url) == HTTPNewRequest("POST", url, <<>>)

\* r, err := http.NewRequest("GET", url, nil)
GetRequest(url) == HTTPNewRequest("GET", url, <<>>)

\* a.Get(ctx, url, s, isELSAPI), from the call up to the exchange.
GetStart(p, ctxArg, url, s, isELSAPI) ==
    /\ calls[p].pc = "idle"
    /\ calls[p].requests < MaxRequests
    /\ LET n == GetRequest(url)
           c == [IdleCall EXCEPT !.op = "Get", !.url = url,
                                 !.requests = calls[p].requests + 1]
       IN  IF n.err # NilError
           THEN /\ calls' = [calls EXCEPT ![p] =
                                [c EXCEPT !.done = TRUE, !.err = n.err,
                                          !.ctxArg = ctxArg, !.signer = s,
                                          !.isELSAPI = isELSAPI]]
                /\ UNCHANGED reqs
           ELSE DoProceed(p, DoBegin(c, n.r[1], ctxArg, s, isELSAPI))
    /\ UNCHANGED <<mockVars, api, lastTimeout, rw, clock, callers, signerVars, vu, cak>>

\* The request req after the transport has written it to the server: its
\* body, when it has one, has been read to the end.
RequestWritten(req) ==
    IF req.Body = <<>> THEN req
    ELSE [req EXCEPT !.Body = <<ReadAll(req.Body[1]).rest>>]

\* The exchange of caller p yields a response: resp, err := ctxhttp.Do(...),
\* after the transport has written the request.
ExchangeResponds(p, status, body) ==
    /\ calls[p].pc = "exchange"
    /\ reqs' = [reqs EXCEPT ![p] = <<RequestWritten(reqs[p][1])>>]
    /\ LET received == [StatusCode |-> status, Body |-> body]
       IN  calls' = [calls EXCEPT ![p].pc = "return",
                                  ![p].received = <<received>>,
                                  ![p].resp = <<DoResponse(received)>>,
                                  ![p].err = NilError]
    /\ UNCHANGED <<mockVars, api, lastTimeout, rw, clock, callers, signerVars, vu, cak>>

\* The error of the transport: no connection was made, or the connection
\* ended after the request was written.
TransportErr(written) == IF written THEN ErrConnectionClosed ELSE ErrDial

\* The exchange of caller p fails, because its context is done ("ctx") or in
\* the transport: err is set and t := a.tp.Now(). The failure may come before
\* or after the transport has written the request.
ExchangeFails(p, cause, written) ==
    /\ calls[p].pc = "exchange"
    /\ cause = "ctx" => CtxDone(calls[p].ctx, clock)
    /\ reqs' = [reqs EXCEPT ![p] = IF written THEN <<RequestWritten(reqs[p][1])>>
                                   ELSE reqs[p]]
    /\ calls' = [calls EXCEPT ![p].pc = "lock",
                              ![p].err = CtxhttpErr(calls[p].ctx, clock,
                                                    TransportErr(written)),
                              ![p].t = TimeProviderNow(clock)]
    /\ UNCHANGED <<mockVars, api, lastTimeout, rw, clock, callers, signerVars, vu, cak>>

\* A variant that writes without taking the lock.
DoLock_Skipped(p) ==
    /\ calls[p].pc = "lock"
    /\ calls' = [calls EXCEPT ![p].pc = "write"]
    /\ UNCHANGED <<mockVars, api, lastTimeout, rw, clock, callers, reqs, signerVars, vu, cak>>

\* a.Lock()
DoLock(p) ==
    /\ calls[p].pc = "lock"
    /\ rw.writer = <<>> /\ rw.readers = {}
    /\ rw' = [rw EXCEPT !.writer = <<p>>]
    /\ calls' = [calls EXCEPT ![p].pc = "write"]
    /\ UNCHANGED <<mockVars, api, lastTimeout, clock, callers, reqs, signerVars, vu, cak>>

\* a.lastTimeout = t
DoWrite(p) ==
    /\ calls[p].pc = "write"
    /\ lastTimeout' = calls[p].t
    /\ calls' = [calls EXCEPT ![p].pc = "unlock"]
    /\ UNCHANGED <<mockVars, api, rw, clock, callers, reqs, signerVars, vu, cak>>

\* a.Unlock()
DoUnlock(p) ==
    /\ calls[p].pc = "unlock"
    /\ rw' = [rw EXCEPT !.writer = IF @ = <<p>> THEN <<>> ELSE @]
    /\ calls' = [calls EXCEPT ![p].pc = "return"]
    /\ UNCHANGED <<mockVars, api, lastTimeout, clock, callers, reqs, signerVars, vu, cak>>

\* return resp, err, after the deferred cancel().
DoReturn(p) ==
    /\ calls[p].pc = "return"
    /\ calls' = [calls EXCEPT ![p].pc = "idle",
                              ![p].done = TRUE,
                              ![p].ctx = IF calls[p].synth
                                         THEN [@ EXCEPT !.cancelled = TRUE]
                                         ELSE @]
    /\ UNCHANGED <<mockVars, api, lastTimeout, rw, clock, callers, reqs, signerVars, vu, cak>>

\* a.LastTimeout(): a.RLock()
LastTimeoutRLock(p) ==
    /\ calls[p].pc = "idle"
    /\ rw.writer = <<>>
    /\ rw' = [rw EXCEPT !.readers = @ \cup {p}]
    /\ calls' = [calls EXCEPT ![p].pc = "read"]
    /\ UNCHANGED <<mockVars, api, lastTimeout, clock, callers, reqs, signerVars, vu, cak>>

\* return a.lastTimeout, after the deferred a.RUnlock()
LastTimeoutRead(p) ==
    /\ calls[p].pc = "read"
    /\ rw' = [rw EXCEPT !.readers = @ \ {p}]
    /\ calls' = [calls EXCEPT ![p].pc = "idle", ![p].value = lastTimeout,
                              ![p].read = TRUE]
    /\ UNCHANGED <<mockVars, api, lastTimeout, clock, callers, reqs, signerVars, vu, cak>>

\* Time passes while an exchange is under way.
Tick ==
    /\ clock < MaxClock
    /\ \E p \in callers : calls[p].pc = "exchange"
    /\ clock' = clock + 1
    /\ UNCHANGED <<mockVars, api, lastTimeout, rw, callers, reqs, calls, signerVars, vu, cak>>

(***************************************************************************)
(* one caller of the EDAPICaller                                           *)
(***************************************************************************)

APIVersions == {"", "1.2"}

RequestTimeouts == {1}

\* The timeout of the contexts callers make themselves, in ticks.
CallerTimeouts == {2}

\* The contexts a caller may hand to Do at time clk; <<>> is a nil context.
CtxArgs(clk) ==
    {<<>>, <<Background>>}
    \cup {<<WithTimeout(Background, clk, d)>> : d \in CallerTimeouts}

Signers == {NoSigner, DummySigner(NilError), DummySigner(ErrDummy), APISigner}

CallerURLs == {"/path/to/route?query1&query2", "http://another.api.com/a/b"}

GetURLs == CallerURLs \cup {":bad"}

CallerBodies == {<<>>, <<NewBuffer(JSONBody)>>}

StatusCodes == {200, 401, 500}

ResponseBodies == {"{\"some\":\"data\"}"}

DoAccessKeys ==
    {k \in AccessKeys : /\ k.SecretAccessKey = "secretAccessKey"
                        /\ k.ExpiryDate.t = TestNow + Hour}

InitDo ==
    /\ accessKey \in DoAccessKeys
    /\ UnusedSigner
    /\ cak = NoCreate
    /\ UnusedMock
    /\ \E t \in RequestTimeouts, v \in APIVersions : api = NewEDAPICaller(t, v)
    /\ lastTimeout = ZeroTime
    /\ rw = FreeRWMutex
    /\ clock = 0
    /\ callers = {1}
    /\ reqs = [p \in callers |-> <<>>]
    /\ calls = [p \in callers |-> IdleCall]

NextDo ==
    \/ \E p \in callers, m \in {"GET"}, u \in CallerURLs, b \in CallerBodies :
          CallerNewRequest(p, m, u, b)
    \/ \E p \in callers, c \in CtxArgs(clock), s \in Signers, e \in BOOLEAN :
          DoStart(p, c, s, e)
    \/ \E p \in callers, c \in CtxArgs(clock) : DoRetry(p, c)
    \/ \E p \in callers, c \in CtxArgs(clock), u \in GetURLs, s \in Signers,
          e \in BOOLEAN : GetStart(p, c, u, s, e)
    \/ \E p \in callers, st \in StatusCodes, b \in ResponseBodies :
          ExchangeResponds(p, st, b)
    \/ \E p \in callers, cause \in {"ctx", "transport"}, w \in BOOLEAN :
          ExchangeFails(p, cause, w)
    \/ \E p \in callers : DoLock(p)
    \/ \E p \in callers : DoWrite(p)
    \/ \E p \in callers : DoUnlock(p)
    \/ \E p \in callers : DoReturn(p)
    \/ \E p \in callers : LastTimeoutRLock(p)
    \/ \E p \in callers : LastTimeoutRead(p)
    \/ Tick

SpecDo == InitDo /\ [][NextDo]_vars

(***************************************************************************)
(* concurrent callers of one EDAPICaller                                   *)
(***************************************************************************)

InitConcurrent ==
    /\ accessKey \in DoAccessKeys
    /\ UnusedSigner
    /\ cak = NoCreate
    /\ UnusedMock
    /\ api = NewEDAPICaller(1, "")
    /\ lastTimeout = ZeroTime
    /\ rw = FreeRWMutex
    /\ clock = 0
    /\ callers = 1..NumCallers
    /\ reqs = [p \in callers |-> <<>>]
    /\ calls = [p \in callers |-> IdleCall]

NextConcurrent ==
    \/ \E p \in callers : CallerNewRequest(p, "GET", "/path/to/route", <<>>)
    \/ \E p \in callers : DoStart(p, <<>>, NoSigner, TRUE)
    \/ \E p \in callers : ExchangeResponds(p, 200, "{\"some\":\"data\"}")
    \/ \E p \in callers, cause \in {"ctx", "transport"}, w \in BOOLEAN :
          ExchangeFails(p, cause, w)
    \/ \E p \in callers : DoLock(p)
    \/ \E p \in callers : DoWrite(p)
    \/ \E p \in callers : DoUnlock(p)
    \/ \E p \in callers : DoReturn(p)
    \/ \E p \in callers : LastTimeoutRLock(p)
    \/ \E p \in callers : LastTimeoutRead(p)
    \/ Tick

SpecConcurrent == InitConcurrent /\ [][NextConcurrent]_vars

(***************************************************************************)
(* APIHandler.CreateAccessKey                                              *)
(***************************************************************************)

ErrUnexpectedStatusCode == "Unexpected Status Code"

ErrJSONEnd == "unexpected end of JSON input"

ErrJSONSyntax == "invalid character 'o' looking for beginning of value"

\* A variant that takes every 2xx status for success.
CreateStatusOK_Any2xx(status) == status \in 200..299

\* rep.StatusCode == http.StatusCreated
CreateStatusOK(status) == status = 201

\* h.urlPrefix()
URLPrefix(h) == h.Scheme \o "://" \o h.Domain \o "/" \o h.Version

\* strconv.Itoa(int(expiryDays)), for expiryDays below 2^31.
Itoa(n) == ToString(n)

\* hex.EncodeToString(sha256.Sum256(pw)), for the passwords the model draws.
SHA256Hex(pw) ==
    CASE pw = "password"
           -> "5e884898da28047151d0e56f8dc6292773603d0d6aabbdd62a11ef721d1542d8"
      [] pw = "5e884898da28047151d0e56f8dc6292773603d0d6aabbdd62a11ef721d1542d8"
           -> "113459eb7bb31bddee85ade5230d6ad5d8b2fb52879e00a84ff6ae1067a210d3"
      [] OTHER -> "sha256(" \o pw \o ")"

\* base64.StdEncoding.EncodeToString(s), for the credentials the model draws.
Base64(s) ==
    CASE s = "example@test.com:password"
           -> "ZXhhbXBsZUB0ZXN0LmNvbTpwYXNzd29yZA=="
      [] s = "example@test.com:5e884898da28047151d0e56f8dc6292773603d0d6aabbdd62a11ef721d1542d8"
           -> "ZXhhbXBsZUB0ZXN0LmNvbTo1ZTg4NDg5OGRhMjgwNDcxNTFkMGU1NmY4ZGM2MjkyNzczNjAzZDBkNmFhYmJkZDYyYTExZWY3MjFkMTU0MmQ4"
      [] s = "example@test.com:113459eb7bb31bddee85ade5230d6ad5d8b2fb52879e00a84ff6ae1067a210d3"
           -> "ZXhhbXBsZUB0ZXN0LmNvbToxMTM0NTllYjdiYjMxYmRkZWU4NWFkZTUyMzBkNmFkNWQ4YjJmYjUyODc5ZTAwYTg0ZmY2YWUxMDY3YTIxMGQz"
      [] s = "x?y@test.com:password"
           -> "eD95QHRlc3QuY29tOnBhc3N3b3Jk"
      [] s = "x?y@test.com:5e884898da28047151d0e56f8dc6292773603d0d6aabbdd62a11ef721d1542d8"
           -> "eD95QHRlc3QuY29tOjVlODg0ODk4ZGEyODA0NzE1MWQwZTU2ZjhkYzYyOTI3NzM2MDNkMGQ2YWFiYmRkNjJhMTFlZjcyMWQxNTQyZDg="
      [] s = "x?y@test.com:113459eb7bb31bddee85ade5230d6ad5d8b2fb52879e00a84ff6ae1067a210d3"
           -> "eD95QHRlc3QuY29tOjExMzQ1OWViN2JiMzFiZGRlZTg1YWRlNTIzMGQ2YWQ1ZDhiMmZiNTI4NzllMDBhODRmZjZhZTEwNjdhMjEwZDM="
      [] OTHER -> "base64(" \o s \o ")"

\* A variant that sends the password as it was given.
SentPassword_Plain(password, pwPrehashed) == password

\* if !pwPrehashed { password = hex(sha256(password)) }
SentPassword(password, pwPrehashed) ==
    IF pwPrehashed THEN password ELSE SHA256Hex(password)

\* req.SetBasicAuth(username, password)
SetBasicAuth(req, username, password) ==
    [req EXCEPT !.Header =
        [@ EXCEPT !["Authorization"] =
            <<"Basic " \o Base64(username \o ":" \o password)>>]]

\* The url CreateAccessKey builds.
CreateURL(h, emailAddress, expiryDays) ==
    URLPrefix(h) \o "/users/" \o emailAddress
        \o "/accessKeys?expires=1&numDaysTillExpiry=" \o Itoa(expiryDays)

\* json.Marshal of an AccessKey, as the ELS sends it.
KeyJSON(k) ==
    "{\"accessKeyId\":\"" \o k.ID
        \o "\",\"secretAccessKey\":\"" \o k.SecretAccessKey
        \o "\",\"expiryDt\":\"" \o FormatRFC3339(k.ExpiryDate)
        \o "\",\"emailAddress\":\"" \o k.Email \o "\"}"

\* The access keys the ELS creates.
CreatedKeys ==
    {[ID |-> "anAccessKey", SecretAccessKey |-> "aSecretAccessKey",
      ExpiryDate |-> [t |-> TestNow + Hour, off |-> UTCOffset],
      Email |-> "user@example.com"]}

\* &AccessKey{}
ZeroAccessKey ==
    [ID |-> "", SecretAccessKey |-> "", ExpiryDate |-> ZeroTime, Email |-> ""]

\* json.Unmarshal(content, &k) with k = &AccessKey{}: the error and k, for the
\* bodies the model draws.
JSONUnmarshal(content) ==
    IF \E k \in CreatedKeys : KeyJSON(k) = content
    THEN [err |-> NilError,
          k   |-> <<CHOOSE k \in CreatedKeys : KeyJSON(k) = content>>]
    ELSE IF content = "null" THEN [err |-> NilError, k |-> <<>>]
    ELSE IF content = "{}" THEN [err |-> NilError, k |-> <<ZeroAccessKey>>]
    ELSE IF content = "" THEN [err |-> ErrJSONEnd, k |-> <<ZeroAccessKey>>]
    ELSE [err |-> ErrJSONSyntax, k |-> <<ZeroAccessKey>>]

\* What CreateAccessKey returns for the status and the decoding d of the body.
CreateDecoded(status, d) ==
    IF d.err # NilError
    THEN [a |-> <<>>, statusCode |-> status, err |-> d.err]
    ELSE [a |-> d.k, statusCode |-> status, err |-> NilError]

\* What CreateAccessKey returns for the status and the reading rd of the body.
CreateRead(status, rd) ==
    IF rd.err # NilError
    THEN [a |-> <<>>, statusCode |-> 0, err |-> rd.err]
    ELSE CreateDecoded(status, JSONUnmarshal(rd.b))

\* The reading of the body of rep under the context ctx at time clk: what
\* ioutil.ReadAll gives, or the context's error when the context ended the
\* read.
CreateReadAll(rep, ctx, clk, interrupted) ==
    IF interrupted
    THEN [b |-> "", err |-> CtxErr(ctx, clk), rest |-> rep.Body]
    ELSE ReadAll(rep.Body)

\* The call record of CreateAccessKey once it has returned res.
CreateReturned(c, res) ==
    [c EXCEPT !.pc = "done", !.a = res.a, !.statusCode = res.statusCode,
              !.err = res.err]

\* The call record of CreateAccessKey after http.NewRequest gave n.
CreateBegun(c, n, username, password) ==
    IF n.err # NilError
    THEN CreateReturned(c, [a |-> <<>>, statusCode |-> 0, err |-> n.err])
    ELSE [c EXCEPT !.pc = "exchange",
                   !.req = <<SetBasicAuth(n.r[1], username, password)>>]

\* h.CreateAccessKey(ctx, emailAddress, password, pwPrehashed, expiryDays), from
\* the call up to the exchange.
CreateStart(ctx, emailAddress, password, pwPrehashed, expiryDays) ==
    /\ cak.pc = "none"
    /\ cak' = CreateBegun([pc |-> "start", ctx |-> ctx,
                           emailAddress |-> emailAddress, password |-> password,
                           pwPrehashed |-> pwPrehashed, expiryDays |-> expiryDays,
                           req |-> <<>>, rep |-> <<>>,
                           a |-> <<>>, statusCode |-> 0, err |-> NilError],
                          HTTPNewRequest("POST",
                              CreateURL(api, emailAddress, expiryDays), <<>>),
                          emailAddress, SentPassword(password, pwPrehashed))
    /\ UNCHANGED <<mockVars, callerVars, signerVars, vu>>

\* The call record of CreateAccessKey after ctxhttp.Do gave the response rep:
\* it has returned for the status code, or goes on to read the body.
CreateChecked(c, rep) ==
    IF ~CreateStatusOK(rep.StatusCode)
    THEN CreateReturned([c EXCEPT !.rep = <<rep>>],
                        [a |-> <<>>, statusCode |-> rep.StatusCode,
                         err |-> ErrUnexpectedStatusCode])
    ELSE [c EXCEPT !.pc = "read", !.rep = <<rep>>]

\* The exchange yields a response whose body is still to arrive: body, or a
\* part of it when fails. CreateAccessKey returns for its status code or
\* starts reading the body.
CreateResponds(status, body, fails) ==
    /\ cak.pc = "exchange"
    /\ cak' = CreateChecked(cak, [StatusCode |-> status,
                                  Body |-> [unread |-> body, fails |-> fails]])
    /\ UNCHANGED <<mockVars, callerVars, signerVars, vu>>

\* ioutil.ReadAll(rep.Body) ends, by itself or because the context of the
\* exchange is done (interrupted), and CreateAccessKey decodes and returns.
CreateReadEnds(interrupted) ==
    /\ cak.pc = "read"
    /\ interrupted => CtxDone(cak.ctx, clock)
    /\ LET rep == IF interrupted
                  THEN [cak.rep[1] EXCEPT !.Body.fails = TRUE]
                  ELSE cak.rep[1]
       IN  cak' = CreateReturned(
                     [cak EXCEPT !.rep = <<rep>>],
                     CreateRead(rep.StatusCode,
                                CreateReadAll(rep, cak.ctx, clock, interrupted)))
    /\ UNCHANGED <<mockVars, callerVars, signerVars, vu>>

\* The exchange fails, because the context is done ("ctx") or in the
\* transport, and CreateAccessKey returns the error.
CreateFails(cause) ==
    /\ cak.pc = "exchange"
    /\ cause = "ctx" => CtxDone(cak.ctx, clock)
    /\ cak' = CreateReturned(cak, [a |-> <<>>, statusCode |-> 0,
                                   err |-> CtxhttpErr(cak.ctx, clock, ErrDial)])
    /\ UNCHANGED <<mockVars, callerVars, signerVars, vu>>

\* Time passes while CreateAccessKey waits for the response or for its body.
CreateTick ==
    /\ cak.pc \in {"exchange", "read"}
    /\ clock < MaxClock
    /\ clock' = clock + 1
    /\ UNCHANGED <<mockVars, api, lastTimeout, rw, callers, reqs, calls, signerVars, vu, cak>>

\* The Scheme of the handler: the default, or none.
CreateSchemes == {DefaultAPIScheme, ""}

CreateEmails == {"example@test.com", "x?y@test.com"}

CreatePasswords == {"password", SHA256Hex("password")}

ExpiryDaysValues == {0, 3}

CreateContexts == {Background, WithTimeout(Background, 0, 1)}

CreateStatusCodes == {200, 201, 401, 500}

CreateBodies == {KeyJSON(k) : k \in CreatedKeys} \cup {"", "oops", "null", "{}"}

InitCreate ==
    /\ accessKey \in DoAccessKeys
    /\ UnusedSigner
    /\ \E v \in APIVersions, sc \in CreateSchemes :
          api = [NewEDAPICaller(1, v) EXCEPT !.Scheme = sc]
    /\ lastTimeout = ZeroTime
    /\ rw = FreeRWMutex
    /\ clock = 0
    /\ callers = {}
    /\ reqs = <<>>
    /\ calls = <<>>
    /\ cak = NoCreate
    /\ UnusedMock

NextCreate ==
    \/ \E ctx \in CreateContexts, e \in CreateEmails, pw \in CreatePasswords,
          ph \in BOOLEAN, d \in ExpiryDaysValues : CreateStart(ctx, e, pw, ph, d)
    \/ \E st \in CreateStatusCodes, b \in CreateBodies, f \in BOOLEAN :
          CreateResponds(st, b, f)
    \/ \E i \in BOOLEAN : CreateReadEnds(i)
    \/ \E cause \in {"ctx", "transport"} : CreateFails(cause)
    \/ CreateTick

SpecCreate == InitCreate /\ [][NextCreate]_vars

(***************************************************************************)
(* AccessKey.CanSign on its own                                            *)
(***************************************************************************)

\* A variant that is content with one of the two parts.
CanSign_Either(a) == a.ID # "" \/ a.SecretAccessKey # ""

\* return (a.ID) != "" && (a.SecretAccessKey) != ""
CanSign(a) == a.ID # "" /\ a.SecretAccessKey # ""

\* The access keys CanSign is asked about.
CanSignKeys ==
    [ID : {"", "AccessKeyID", "anAccessKey"},
     SecretAccessKey : {""} \cup SecretAccessKeys,
     ExpiryDate : Expiries,
     Email : {"", "example@test.com"}]

InitCanSign ==
    /\ accessKey \in {k \in AccessKeys : k.ExpiryDate = ZeroTime
                                         /\ k.SecretAccessKey = "secretAccessKey"}
    /\ r = <<>>
    /\ ret = <<>>
    /\ hist = <<>>
    /\ UnusedCaller
    /\ cak = NoCreate
    /\ UnusedMock
    /\ \E a \in CanSignKeys : vu = [NoCall EXCEPT !.a = a]

\* bResult = sut.CanSign()
CallCanSign ==
    /\ ~vu.called
    /\ vu' = [vu EXCEPT !.called = TRUE, !.result = CanSign(vu.a)]
    /\ UNCHANGED <<mockVars, signerVars, callerVars, cak>>

NextCanSign == CallCanSign

SpecCanSign == InitCanSign /\ [][NextCanSign]_vars

(***************************************************************************)
(* the mock APICaller (package mock)                                       *)
(***************************************************************************)

\* The most expected calls the test configures.
MaxExpected == 2

\* The goroutines of the SUT that invoke the mock APICaller.
NumInvokers == 2

Invokers == 1..NumInvokers

MockMethods == {"CreateAccessKey", "Do", "Get"}

\* ACArgs{}
ZeroACArgs ==
    [Context |-> <<>>, EmailAddress |-> "", Password |-> "",
     PwPrehashed |-> FALSE, ExpiryDays |-> 0, Req |-> <<>>, URL |-> "",
     Signer |-> NoSigner, IsELSAPI |-> FALSE]

\* ACRep{}
ZeroACRep ==
    [Delay |-> 0, Err |-> NilError, Rep |-> <<>>, StatusCode |-> 0,
     AccessKey |-> <<>>]

\* HTTPResponse(statusCode, content)
HTTPResponse(statusCode, content) ==
    <<[StatusCode    |-> statusCode,
       ContentLength |-> IF content # "" THEN Len(content) ELSE 0,
       Body          |-> IF content # "" THEN <<content>> ELSE <<>>]>>

\* The responses the test configures for a call of the method fn.
MockReps(fn) ==
    IF fn = "CreateAccessKey"
    THEN {[ZeroACRep EXCEPT !.StatusCode = 201,
                            !.AccessKey = <<CHOOSE k \in CreatedKeys : TRUE>>]}
    ELSE {[ZeroACRep EXCEPT !.Rep = HTTPResponse(200, "{\"some\":\"data\"}")],
          [ZeroACRep EXCEPT !.Err = DeadlineExceeded, !.Delay = 1]}

\* The arguments the goroutine p passes, whatever the method it invokes.
InvokerArgs(p) ==
    [Context |-> <<Background>>, EmailAddress |-> "example@test.com",
     Password |-> "password", PwPrehashed |-> TRUE, ExpiryDays |-> p,
     Req |-> <<NewRequestValue("GET", "/route/" \o ToString(p), "", <<>>)>>,
     URL |-> "/url/" \o ToString(p), Signer |-> DummySigner(NilError),
     IsELSAPI |-> TRUE]

\* The fields of a that CreateAccessKey, Do and Get assign from their
\* arguments in.
RecordArgs(a, fn, in) ==
    CASE fn = "CreateAccessKey" ->
           [a EXCEPT !.Context = in.Context, !.EmailAddress = in.EmailAddress,
                     !.Password = in.Password, !.ExpiryDays = in.ExpiryDays,
                     !.PwPrehashed = in.PwPrehashed]
      [] fn = "Do" ->
           [a EXCEPT !.Context = in.Context, !.Req = in.Req,
                     !.Signer = in.Signer, !.IsELSAPI = in.IsELSAPI]
      [] fn = "Get" ->
           [a EXCEPT !.Context = in.Context, !.URL = in.URL,
                     !.Signer = in.Signer, !.IsELSAPI = in.IsELSAPI]

\* What CreateAccessKey, Do and Get return from the response rp.
ReturnValues(fn, rp) ==
    IF fn = "CreateAccessKey" THEN <<rp.AccessKey, rp.StatusCode, rp.Err>>
    ELSE <<rp.Rep, rp.Err>>

\* panic(...) of initNextCall when the calls are used up
PanicTooMany(n) ==
    "APICaller: Invoked by SUT too many times (num configured calls = "
        \o ToString(n) \o ")"

\* panic(...) of initNextCall when another method was expected
PanicWrongMethod(made, expectedFunc, fn) ==
    "APICaller: Call #" \o ToString(made + 1) \o " : Expected " \o expectedFunc
        \o ", was actually " \o fn \o ")"

\* The panic of initNextCall("expectedFunc") for the mock m, "" when none.
InitPanic(m, expectedFunc) ==
    IF Len(m.Calls) <= m.CallsMade THEN PanicTooMany(Len(m.Calls))
    ELSE IF m.Calls[m.CallsMade + 1].fn # expectedFunc
    THEN PanicWrongMethod(m.CallsMade, expectedFunc, m.Calls[m.CallsMade + 1].fn)
    ELSE ""

\* A variant that panics with the lock held.
PanicUnlock_Missing(mu) == mu

\* m.Unlock() before a panic of initNextCall
PanicUnlock(mu) == <<>>

\* A goroutine that has not invoked the mock APICaller.
IdleInvocation ==
    [pc |-> "idle", fn |-> "", made |-> 0, ncalls |-> 0, idx |-> 0,
     cfn |-> "", ret |-> <<>>, panic |-> ""]

\* What the test reads from the mock: the method, its result, and with it
\* the number of invocations that had returned and that had panicked.
Seen(op, value) ==
    <<[op |-> op, value |-> value,
       returned |-> Cardinality({p \in Invokers : invs[p].pc = "done"}),
       panicked |-> Cardinality({p \in Invokers : invs[p].pc = "panicked"}),
       ncalls   |-> Len(mock.Calls)]>>

\* m.AddExpectedCall(fn, c) with a call c that holds the response rp.
AddExpectedCall(fn, rp) ==
    /\ Len(mock.Calls) < MaxExpected
    /\ mock.mu = <<>>
    /\ mock' = [mock EXCEPT !.Calls = Append(@, [ACArgs |-> ZeroACArgs,
                                                 ACRep |-> rp,
                                                 CallMade |-> FALSE,
                                                 fn |-> fn])]
    /\ seen' = Seen("AddExpectedCall", ToString(Len(mock.Calls) + 1))
    /\ UNCHANGED <<invs, signerVars, callerVars, vu, cak>>

\* m.NumCallsMade()
NumCallsMade ==
    /\ mock.mu = <<>>
    /\ seen' = Seen("NumCallsMade", ToString(mock.CallsMade))
    /\ UNCHANGED <<mock, invs, signerVars, callerVars, vu, cak>>

\* m.AllCallsMade()
AllCallsMade ==
    /\ mock.mu = <<>>
    /\ seen' = Seen("AllCallsMade", ToString(mock.CallsMade = Len(mock.Calls)))
    /\ UNCHANGED <<mock, invs, signerVars, callerVars, vu, cak>>

\* A variant of the invocation that does not wait for the lock.
MockLock_NoWait(p, fn) ==
    /\ invs[p].pc = "idle"
    /\ mock' = [mock EXCEPT !.mu = <<p>>]
    /\ invs' = [invs EXCEPT ![p].pc = "check", ![p].fn = fn]
    /\ UNCHANGED <<seen, signerVars, callerVars, vu, cak>>

\* The goroutine p invokes the method fn: initNextCall(fn) takes the lock.
MockLock(p, fn) ==
    /\ invs[p].pc = "idle"
    /\ mock.mu = <<>>
    /\ mock' = [mock EXCEPT !.mu = <<p>>]
    /\ invs' = [invs EXCEPT ![p].pc = "check", ![p].fn = fn]
    /\ UNCHANGED <<seen, signerVars, callerVars, vu, cak>>

\* The invocation record after initNextCall looked at the mock m: the
\* numbers it saw, the method c.fn of the next expected call when there is
\* one, and whether it goes on or is about to panic.
Checked(c, m) ==
    [c EXCEPT !.made = m.CallsMade, !.ncalls = Len(m.Calls),
              !.cfn = IF Len(m.Calls) <= m.CallsMade THEN ""
                      ELSE m.Calls[m.CallsMade + 1].fn,
              !.idx = IF InitPanic(m, c.fn) = "" THEN m.CallsMade + 1 ELSE 0,
              !.pc = IF InitPanic(m, c.fn) = "" THEN "args" ELSE "panic"]

\* The message of the panic of the invocation c, built after m.Unlock() from
\* the fields the mock m has by then.
PanicMessage(c, m) ==
    IF c.ncalls <= c.made THEN PanicTooMany(Len(m.Calls))
    ELSE PanicWrongMethod(m.CallsMade, c.fn, c.cfn)

\* panic(fmt.Sprintf(...)) of initNextCall, after the lock was released.
MockPanic(p) ==
    /\ invs[p].pc = "panic"
    /\ invs' = [invs EXCEPT ![p].pc = "panicked",
                            ![p].panic = PanicMessage(invs[p], mock)]
    /\ UNCHANGED <<mock, seen, signerVars, callerVars, vu, cak>>

\* initNextCall after m.Lock(): unlock before the panic, or mark the call as
\* made.
MockCheck(p) ==
    /\ invs[p].pc = "check"
    /\ invs' = [invs EXCEPT ![p] = Checked(@, mock)]
    /\ mock' = IF InitPanic(mock, invs[p].fn) # ""
               THEN [mock EXCEPT !.mu = PanicUnlock(@)]
               ELSE [mock EXCEPT !.Calls[mock.CallsMade + 1].CallMade = TRUE]
    /\ UNCHANGED <<seen, signerVars, callerVars, vu, cak>>

\* The invocation records its arguments in the call and takes the values to
\* return from it.
MockArgs(p) ==
    /\ invs[p].pc = "args"
    /\ mock' = [mock EXCEPT !.Calls[invs[p].idx].ACArgs =
                                RecordArgs(@, invs[p].fn, InvokerArgs(p))]
    /\ invs' = [invs EXCEPT ![p].pc = "end",
                            ![p].ret = <<ReturnValues(invs[p].fn,
                                            mock.Calls[invs[p].idx].ACRep)>>]
    /\ UNCHANGED <<seen, signerVars, callerVars, vu, cak>>

\* defer m.endCall(): m.CallsMade++ and m.Unlock(); the invocation returns.
MockEndCall(p) ==
    /\ invs[p].pc = "end"
    /\ mock' = [mock EXCEPT !.CallsMade = @ + 1, !.mu = <<>>]
    /\ invs' = [invs EXCEPT ![p].pc = "done"]
    /\ UNCHANGED <<seen, signerVars, callerVars, vu, cak>>

InitMock ==
    /\ accessKey \in DoAccessKeys
    /\ UnusedSigner
    /\ UnusedCaller
    /\ cak = NoCreate
    /\ mock = NewAPICaller
    /\ invs = [p \in Invokers |-> IdleInvocation]
    /\ seen = <<>>

NextMock ==
    \/ \E fn \in MockMethods : \E rp \in MockReps(fn) : AddExpectedCall(fn, rp)
    \/ NumCallsMade
    \/ AllCallsMade
    \/ \E p \in Invokers, fn \in MockMethods : MockLock(p, fn)
    \/ \E p \in Invokers : MockCheck(p)
    \/ \E p \in Invokers : MockPanic(p)
    \/ \E p \in Invokers : MockArgs(p)
    \/ \E p \in Invokers : MockEndCall(p)

SpecMock == InitMock /\ [][NextMock]_vars

(***************************************************************************)
(* a signer holding any credential                                         *)
(***************************************************************************)

\* The credentials a signer may be built with: NewAPISigner takes every
\* non-nil key, also one without ID or without secret.
SignerKeys ==
    [ID : {""} \cup AccessKeyIDs,
     SecretAccessKey : {"", "secretAccessKey"},
     ExpiryDate : {[t |-> TestNow + k, off |-> UTCOffset] : k \in {Minute, Hour}},
     Email : {"example@test.com"}]

\* NewAPISigner(k) with one of these keys; the caller holds no request yet.
InitAnyKey ==
    /\ accessKey \in SignerKeys
    /\ r = <<>>
    /\ ret = <<>>
    /\ hist = <<>>
    /\ vu = NoCall
    /\ UnusedCaller
    /\ cak = NoCreate
    /\ UnusedMock

SpecAnyKey == InitAnyKey /\ [][Next]_vars

(***************************************************************************)
(* properties                                                              *)
(***************************************************************************)

\* The last Sign call, when there is one.
Called == ret # <<>>

\* The last Sign call returned nil.
Signed == Called /\ ret[1].err = NilError

\* The last Sign call was given a request whose path begins with "/1.0/".
SignedValidPath ==
    /\ Called
    /\ ret[1].pre # <<>>
    /\ Len(ret[1].pre[1].URL.Path) >= 5
    /\ SubSeq(ret[1].pre[1].URL.Path, 1, 5) = "/1.0/"

\* The last value of a header key, "" when there is none.
HeaderLast(h, key) == IF h[key] = <<>> THEN "" ELSE h[key][Len(h[key])]

\* The k-th of the newline-separated fields of s.
Field(s, k) ==
    LET nl     == {i \in 1..Len(s) : SubSeq(s, i, i) = "\n"}
        nth(j) == CHOOSE i \in nl : Cardinality({x \in nl : x < i}) = j - 1
        from   == IF k = 1 THEN 1 ELSE nth(k - 1) + 1
        to     == IF k > Cardinality(nl) THEN Len(s) ELSE nth(k) - 1
    IN  SubSeq(s, from, to)

\* The canonical string of a request, as the test suite's expectedAuth and a
\* verifier build it from the method, the body, a timestamp and the path.
Canonical(req, timestamp) ==
    req.Method \o "\n"
    \o (IF req.Body = <<>> THEN "" ELSE MD5Hex(req.Body[1].unread)) \o "\n"
    \o (IF req.Body = <<>> THEN "" ELSE RequiredContentType) \o "\n"
    \o timestamp \o "\n"
    \o req.URL.Path

\* C1: a key whose ExpiryDate is the zero time is valid until any horizon:
\* ValidUntil(now, in) is true for every now and every in.
C1_UnsetExpiryIsAlwaysValid ==
    (vu.called /\ vu.a.ExpiryDate = ZeroTime) => vu.result

\* C2: for a key with a set ExpiryDate, ValidUntil(now, in) is true exactly
\* when ExpiryDate minus now is strictly greater than in.
C2_SetExpiryValidIffBeyondHorizon ==
    (vu.called /\ vu.a.ExpiryDate # ZeroTime)
        => (vu.result <=> (vu.a.ExpiryDate.t - vu.now.t > vu.in))

\* C2 witness: ValidUntil returned false at the boundary ExpiryDate = now + in.
C2_Witness ==
    /\ vu.called
    /\ vu.a.ExpiryDate # ZeroTime
    /\ vu.in > 0
    /\ vu.a.ExpiryDate.t = vu.now.t + vu.in
    /\ ~vu.result

\* C3: Sign of a request with a valid path by a signer whose key has the zero
\* ExpiryDate never returns ErrExpiredAccessKey.
C3_NeverExpiringKeyCanSign ==
    (SignedValidPath /\ accessKey.ExpiryDate = ZeroTime)
        => ret[1].err # ErrExpiredAccessKey

\* C4: Sign of a request with a valid path returns ErrExpiredAccessKey whenever
\* the key's set ExpiryDate is not more than one minute after now.
C4_ExpiringKeyCannotSign ==
    (/\ SignedValidPath
     /\ accessKey.ExpiryDate # ZeroTime
     /\ accessKey.ExpiryDate.t - ret[1].now.t <= Minute)
        => ret[1].err = ErrExpiredAccessKey

\* C4 witness: Sign refused a key that expires within the next minute.
C4_Witness ==
    /\ SignedValidPath
    /\ accessKey.ExpiryDate.t > ret[1].now.t
    /\ accessKey.ExpiryDate.t < ret[1].now.t + Minute
    /\ ret[1].err = ErrExpiredAccessKey

\* C5: Sign of a non-nil request whose path does not begin with "/1.0/"
\* returns ErrRequestInvalidURL, whatever the credential.
C5_InvalidPathIsRefused ==
    (Called /\ ret[1].pre # <<>> /\ ~SignedValidPath)
        => ret[1].err = ErrRequestInvalidURL

\* C5 witness: Sign refused the path "/1.0" although the key had also expired.
C5_Witness ==
    /\ Called
    /\ ret[1].pre # <<>>
    /\ ret[1].pre[1].URL.Path = "/1.0"
    /\ accessKey.ExpiryDate.t < ret[1].now.t
    /\ ret[1].err = ErrRequestInvalidURL

\* C6: after a successful Sign the Authorization value it computed and added
\* is "ELS " + id + ":" + base64(HMAC-SHA256(secret, C)), C being method,
\* digest, content type, RFC3339 UTC time and path, each but the last followed
\* by a newline, digest and content type empty without a body; it is the
\* header's value when the request carried no Authorization header before.
C6_AuthorizationValue ==
    Signed =>
        LET pre      == ret[1].pre[1]
            expected == "ELS " \o accessKey.ID \o ":"
                        \o HmacSha256Base64(accessKey.SecretAccessKey,
                               Canonical(pre, FormatRFC3339(UTC(ret[1].now))))
        IN  /\ ret[1].auth = expected
            /\ HeaderLast(r[1].Header, "Authorization") = expected
            /\ pre.Header["Authorization"] = <<>>
                   => HeaderGet(r[1].Header, "Authorization") = expected

\* C6 witness: the test suite's POST with a body, signed at 2015-01-01T00:00:00Z
\* given in a zone east of UTC.
C6_Witness ==
    /\ Signed
    /\ ret[1].pre[1].Method = "POST"
    /\ ret[1].pre[1].Body = <<NewBuffer(JSONBody)>>
    /\ ret[1].now = [t |-> TestNow, off |-> CETOffset]
    /\ ret[1].fingerprint =
           "POST\nbf7979fb1f989d98a9b98be27c131029\napplication/json;charset=utf-8\n"
           \o "2015-01-01T00:00:00Z\n/1.0/path/to/route"

\* C7: after a successful Sign the X-Els-Date value it added is the timestamp
\* field of the string that was HMAC'd, and the canonical string rebuilt from
\* the signed request (date header, method, path, body) is that string.
C7_DateHeaderIsSignedTimestamp ==
    Signed =>
        /\ HeaderLast(r[1].Header, "X-Els-Date") = Field(ret[1].fingerprint, 4)
        /\ ret[1].pre[1].Header["X-Els-Date"] = <<>>
               => Canonical(r[1], HeaderGet(r[1].Header, "X-Els-Date"))
                      = ret[1].fingerprint

\* C7 witness: a request with a body signed at a `now` located east of UTC.
C7_Witness ==
    /\ Signed
    /\ ret[1].now.off # UTCOffset
    /\ ret[1].pre[1].Body # <<>>
    /\ ret[1].pre[1].Header["X-Els-Date"] = <<>>
    /\ HeaderGet(r[1].Header, "X-Els-Date") = "2015-01-01T00:00:30Z"

\* C8: Sign sets the Content-Type header only when the request has a body;
\* signing a request without a body leaves the Content-Type header as it was.
C8_ContentTypeOnlyWithBody ==
    (Signed /\ ret[1].pre[1].Body = <<>>)
        => r[1].Header["Content-Type"] = ret[1].pre[1].Header["Content-Type"]

\* C9: after a successful Sign of a request with a body, reading the body
\* yields the bytes it held before signing.
C9_BodySurvivesSigning ==
    (Signed /\ ret[1].pre[1].Body # <<>>)
        => /\ r[1].Body # <<>>
           /\ ReadAll(r[1].Body[1]).err = NilError
           /\ ReadAll(r[1].Body[1]).b = ret[1].pre[1].Body[1].unread

\* C9 witness: a request holding the JSON body was signed.
C9_Witness ==
    /\ Signed
    /\ ret[1].pre[1].Body # <<>>
    /\ ret[1].pre[1].Body[1].unread = JSONBody

\* C10: two successful Sign calls with the same credential at the same instant
\* on requests with the same method, path and body compute the same
\* Authorization value.
C10_SigningIsDeterministic ==
    (/\ Signed
     /\ hist # <<>>
     /\ hist[1].now.t = ret[1].now.t
     /\ hist[1].Method = ret[1].pre[1].Method
     /\ hist[1].Path = ret[1].pre[1].URL.Path
     /\ hist[1].Body = ret[1].pre[1].Body)
        => ret[1].auth = hist[1].auth

\* C10 witness: a second request like the first was signed at the same
\* instant, given in another location.
C10_Witness ==
    /\ Signed
    /\ hist # <<>>
    /\ hist[1].now.t = ret[1].now.t
    /\ hist[1].now.off # ret[1].now.off
    /\ hist[1].Method = ret[1].pre[1].Method
    /\ hist[1].Path = ret[1].pre[1].URL.Path
    /\ hist[1].Body = ret[1].pre[1].Body
    /\ hist[1].Body # <<>>
    /\ ret[1].pre[1].Header = EmptyHeader

(***************************************************************************)
(* properties of EDAPICaller.Do, Get and LastTimeout                       *)
(***************************************************************************)

\* Do was entered with a request, in this call record.
DoCalled(c) == c.pre # <<>>

\* The error the signer of the call c returns for the request Do hands it:
\* the caller's request with its URL completed, at the time Do was entered.
SignErrorOf(c) ==
    IF c.signer = NoSigner THEN NilError
    ELSE SignerSign(c.signer, accessKey,
                    CompleteURL(api, c.pre[1], c.isELSAPI),
                    TimeProviderNow(c.start)).err

\* The call c has returned the error e and no response, and sent nothing.
ReturnedUnsent(c, e) ==
    /\ c.done
    /\ c.err = e
    /\ c.resp = <<>>
    /\ c.sent = <<>>
    /\ c.received = <<>>

\* C11: when a signer is given to Do and its Sign returns an error, Do
\* returns that error and a nil response, and no exchange is attempted.
C11_SignErrorEndsDo ==
    \A p \in callers :
        (DoCalled(calls[p]) /\ SignErrorOf(calls[p]) # NilError)
            => ReturnedUnsent(calls[p], SignErrorOf(calls[p]))

\* A Do call with an APISigner that refused the request's path has returned.
C11_Witness ==
    \E p \in callers :
        /\ DoCalled(calls[p])
        /\ calls[p].signer = APISigner
        /\ calls[p].done
        /\ calls[p].err = ErrRequestInvalidURL
        /\ calls[p].resp = <<>>

\* The exchange of the call c began: the request was handed to ctxhttp.Do.
Exchanged(c) == c.sent # <<>>

\* The context of the call c is the default one: derived from the background
\* context, due requestTimeout after Do was entered, cancelled only on return.
UnderDefaultContext(c) ==
    /\ [c.ctx EXCEPT !.cancelled = FALSE]
          = WithTimeout(Background, c.start, api.requestTimeout)
    /\ c.ctx.cancelled => c.done

\* The context of the call c is the caller's, and a deadline error of the
\* call comes no sooner than the caller's own deadline.
UnderCallerContext(c) ==
    /\ c.ctx = c.ctxArg[1]
    /\ c.err = DeadlineExceeded
          => /\ c.ctxArg[1].deadline # <<>>
             /\ c.t.t >= TestNow + c.ctxArg[1].deadline[1]

\* C12: without a context Do runs the exchange under a context derived from
\* the background context and bounded by the request timeout; with a context
\* it runs the exchange under exactly that context, so the request timeout
\* never ends such a call.
C12_ContextOfTheExchange ==
    \A p \in callers :
        Exchanged(calls[p])
            => IF calls[p].ctxArg = <<>> THEN UnderDefaultContext(calls[p])
               ELSE UnderCallerContext(calls[p])

\* A call with a context of its own got its response when the request
\* timeout had passed and the context's deadline had not.
C12_Witness ==
    \E p \in callers :
        /\ calls[p].pc = "return"
        /\ calls[p].ctxArg # <<>>
        /\ calls[p].ctxArg[1].deadline # <<>>
        /\ calls[p].received # <<>>
        /\ calls[p].err = NilError
        /\ clock >= calls[p].start + api.requestTimeout
        /\ clock < calls[p].ctxArg[1].deadline[1]

\* The exchange of the call c ended with an error.
ExchangeFailed(c) == Exchanged(c) /\ c.err # NilError

\* The exchange of the call c ended with an error when the deadline of its
\* context had passed.
TimedOut(c) ==
    /\ ExchangeFailed(c)
    /\ c.ctx.deadline # <<>>
    /\ c.t.t >= TestNow + c.ctx.deadline[1]

\* The call c gave the context's deadline error and no response, and once it
\* has returned the time of the failure is what LastTimeout returns.
DeadlineReported(c) ==
    /\ c.err = DeadlineExceeded
    /\ c.resp = <<>>
    /\ c.done => lastTimeout = c.t
    /\ (c.done /\ c.read) => c.value = c.t

\* C13: when the deadline of the context passes before the exchange completes,
\* Do returns context.DeadlineExceeded, and LastTimeout afterwards returns the
\* time the time source gave for that failure.
C13_DeadlineGivesContextError ==
    \A p \in callers : TimedOut(calls[p]) => DeadlineReported(calls[p])

\* A call under the default context timed out one tick after it began, and a
\* LastTimeout call after it returned that time.
C13_Witness ==
    \E p \in callers :
        /\ TimedOut(calls[p])
        /\ calls[p].ctxArg = <<>>
        /\ calls[p].done
        /\ calls[p].read
        /\ calls[p].value = TimeProviderNow(calls[p].start + api.requestTimeout)

\* The call c hands the caller the response of the exchange as it was
\* received, and a nil error.
ResponsePassedOn(c) ==
    /\ c.resp = c.received
    /\ c.err = NilError
    /\ c.pc \in {"return", "idle", "read"}

\* C14: whenever the exchange yields a response, Do returns that response
\* unmodified and a nil error, whatever the status code.
C14_ResponseReturnedAsReceived ==
    \A p \in callers : calls[p].received # <<>> => ResponsePassedOn(calls[p])

\* Do has returned a response with status 500 and its body, and a nil error.
C14_Witness ==
    \E p \in callers :
        /\ calls[p].done
        /\ calls[p].received # <<>>
        /\ calls[p].resp = <<[StatusCode |-> 500, Body |-> "{\"some\":\"data\"}"]>>
        /\ calls[p].err = NilError

\* The URL u is the URL v completed for the dispatcher: its scheme and host,
\* its version before the path of v, and the query of v.
CompletedFrom(u, v) ==
    /\ u.Scheme = api.Scheme
    /\ u.Host = api.Domain
    /\ u.Path = "/" \o api.Version \o v.Path
    /\ u.RawQuery = v.RawQuery

\* C15: Do with isELSAPI = true sends the request with the scheme and host of
\* the dispatcher's configuration and the path "/" + version + the path of the
\* request it was given, and with the query of that request.
C15_FirstPartyURLIsCompleted ==
    \A p \in callers :
        (Exchanged(calls[p]) /\ calls[p].isELSAPI)
            => CompletedFrom(calls[p].sent[1].URL, calls[p].pre[1].URL)

\* A dispatcher of version 1.2 sent a request built for a relative URL with a
\* query to the configured host, under /1.2.
C15_Witness ==
    \E p \in callers :
        /\ Exchanged(calls[p])
        /\ calls[p].isELSAPI
        /\ calls[p].pre[1].URL.Host = ""
        /\ calls[p].sent[1].URL.Scheme = "https"
        /\ calls[p].sent[1].URL.Host = "api.elasticlicensing.com"
        /\ calls[p].sent[1].URL.Path = "/1.2/path/to/route"
        /\ calls[p].sent[1].URL.RawQuery = "query1&query2"

\* C16: Do with isELSAPI = false leaves scheme, host, path and query of the
\* request as the caller built them, in the request it sends and in the
\* caller's request object.
C16_ThirdPartyURLIsUntouched ==
    \A p \in callers :
        (DoCalled(calls[p]) /\ ~calls[p].isELSAPI)
            => /\ reqs[p][1].URL = calls[p].pre[1].URL
               /\ Exchanged(calls[p])
                     => calls[p].sent[1].URL = calls[p].pre[1].URL

\* A request for a third party's absolute URL was sent to that URL.
C16_Witness ==
    \E p \in callers :
        /\ Exchanged(calls[p])
        /\ ~calls[p].isELSAPI
        /\ calls[p].sent[1].URL = [Scheme |-> "http", Host |-> "another.api.com",
                                   Path |-> "/a/b", RawQuery |-> ""]

\* The caller p is about to write lastTimeout, or has written it and not yet
\* unlocked.
Writing(p) == calls[p].pc \in {"write", "unlock"}

\* The caller p is about to read lastTimeout in LastTimeout.
Reading(p) == calls[p].pc = "read"

\* The caller p holds the write lock of the dispatcher, and nobody a read lock.
HoldsWriteLock(p) == rw.writer = <<p>> /\ rw.readers = {}

\* The caller p holds a read lock of the dispatcher, and nobody the write lock.
HoldsReadLock(p) == p \in rw.readers /\ rw.writer = <<>>

\* C17: under every interleaving of Do and LastTimeout calls on one
\* dispatcher, lastTimeout is written only under the write lock and read only
\* under a read lock, and no write overlaps another write or a read.
C17_LastTimeoutAccessIsLocked ==
    \A p \in callers :
        /\ Writing(p) => HoldsWriteLock(p)
        /\ Reading(p) => HoldsReadLock(p)
        /\ Writing(p) => \A q \in callers \ {p} : ~Writing(q) /\ ~Reading(q)

\* One failed call is about to write lastTimeout while another failed call
\* waits for the lock.
C17_Witness ==
    \E p \in callers, q \in callers :
        /\ p # q
        /\ calls[p].pc = "write"
        /\ calls[q].pc = "lock"
        /\ calls[p].t # calls[q].t

\* C18: the recorded last timeout changes only as the effect of a Do call that
\* timed out; calls that return a response, fail at signing or fail with an
\* error other than a timeout leave it as it is, so it stays the zero time as
\* long as no call has timed out.
C18_LastTimeoutOnlyOnTimeout ==
    [][lastTimeout' # lastTimeout
          => \E p \in callers : /\ calls[p].pc = "write"
                                /\ calls[p].err = DeadlineExceeded]_vars

\* Get could not build its request: it has returned the error n.err of
\* http.NewRequest and no response, and Do was not called.
GetRefused(c, n) ==
    /\ c.done
    /\ c.err = n.err
    /\ c.resp = <<>>
    /\ ~DoCalled(c)
    /\ ~Exchanged(c)
    /\ c.t = ZeroTime

\* Nothing has happened to the call c since Do was entered and went up to the
\* exchange or returned the signer's error.
JustBegun(c) ==
    \/ c.pc = "exchange" /\ clock = c.start
    \/ c.pc = "idle" /\ c.done /\ ~Exchanged(c) /\ ~c.read

\* The Get call c of caller p stands as a Do call with the request n.r, a new
\* GET request without body for the URL of c: the same request passed and
\* sent, the same context, response, error and failure time.
GetAsDo(p, c, n) ==
    /\ DoCalled(c)
    /\ c.pre = n.r
    /\ c.pre[1].Method = "GET" /\ c.pre[1].Body = <<>>
    /\ JustBegun(c)
          => LET b == DoBegin([IdleCall EXCEPT !.op = "Get", !.url = c.url,
                                               !.requests = c.requests],
                              n.r[1], c.ctxArg, c.signer, c.isELSAPI)
             IN  calls[p] = b.c /\ reqs[p] = <<b.r>>
    /\ (ExchangeFailed(c) /\ c.done) => lastTimeout = c.t

\* C19: Get(ctx, url, s, isELSAPI) behaves as Do(ctx, r, s, isELSAPI) for a
\* newly built GET request r for url without body: the same response, error
\* and effect on the last timeout; when the request cannot be built, Get
\* returns that error and does not call Do.
C19_GetIsDoOfANewGetRequest ==
    \A p \in callers :
        calls[p].op = "Get"
            => IF HTTPNewRequest("GET", calls[p].url, <<>>).err # NilError
               THEN GetRefused(calls[p], HTTPNewRequest("GET", calls[p].url, <<>>))
               ELSE GetAsDo(p, calls[p], HTTPNewRequest("GET", calls[p].url, <<>>))

\* A Get call for a first-party URL, signed by an APISigner, has returned the
\* response of its exchange.
C19_Witness ==
    \E p \in callers :
        /\ calls[p].op = "Get"
        /\ calls[p].url = "/path/to/route?query1&query2"
        /\ calls[p].signer = APISigner
        /\ calls[p].isELSAPI
        /\ calls[p].done
        /\ calls[p].sent # <<>>
        /\ calls[p].sent[1].Method = "GET"
        /\ calls[p].resp # <<>>

(***************************************************************************)
(* properties of APIHandler.CreateAccessKey                                *)
(***************************************************************************)

\* CreateAccessKey has returned after the exchange gave it a response.
CreateAnswered == cak.pc = "done" /\ cak.rep # <<>>

\* The body of the response rep can be read and holds an access key of the ELS.
Decodable(rep) ==
    /\ ~rep.Body.fails
    /\ \E k \in CreatedKeys : KeyJSON(k) = rep.Body.unread

\* CreateAccessKey returned no key, the status code of rep and
\* ErrUnexpectedStatusCode.
CreateRefused(rep) ==
    /\ cak.a = <<>>
    /\ cak.err = ErrUnexpectedStatusCode
    /\ cak.statusCode = rep.StatusCode

\* CreateAccessKey returned the key in the body of rep, 201 and a nil error.
CreateSucceeded(rep) ==
    /\ cak.a # <<>>
    /\ cak.a[1] \in CreatedKeys
    /\ KeyJSON(cak.a[1]) = rep.Body.unread
    /\ cak.statusCode = 201
    /\ cak.err = NilError

\* C20: CreateAccessKey succeeds only on status 201: for a response with any
\* other status it returns a nil key, ErrUnexpectedStatusCode and the status
\* code of the response; for 201 with a decodable body it returns the decoded
\* key, 201 and a nil error.
C20_CreateSucceedsOnlyOn201 ==
    CreateAnswered
        => /\ cak.rep[1].StatusCode # 201 => CreateRefused(cak.rep[1])
           /\ (cak.rep[1].StatusCode = 201 /\ Decodable(cak.rep[1]))
                 => CreateSucceeded(cak.rep[1])
           /\ cak.err = NilError => cak.rep[1].StatusCode = 201

\* The ELS answered 500 with a body that holds an access key, and
\* CreateAccessKey returned no key, 500 and ErrUnexpectedStatusCode.
C20_Witness ==
    /\ CreateAnswered
    /\ cak.rep[1].StatusCode = 500
    /\ Decodable(cak.rep[1])
    /\ cak.a = <<>>
    /\ cak.statusCode = 500
    /\ cak.err = ErrUnexpectedStatusCode

\* CreateAccessKey built its request.
CreateRequested == cak.pc \in {"exchange", "read", "done"} /\ cak.req # <<>>

\* The value of HTTP Basic Auth for the user and the password.
BasicAuth(user, password) == "Basic " \o Base64(user \o ":" \o password)

\* C21: CreateAccessKey authenticates with HTTP Basic Auth whose user is the
\* email and whose password is hex(SHA-256(password)) when pwPrehashed is
\* false and the password as given when it is true; with pwPrehashed false the
\* plaintext password is not what is sent.
C21_BasicAuthOfHashedPassword ==
    CreateRequested
        => /\ cak.req[1].Header["Authorization"]
                 = <<BasicAuth(cak.emailAddress,
                               IF cak.pwPrehashed THEN cak.password
                               ELSE SHA256Hex(cak.password))>>
           /\ ~cak.pwPrehashed
                 => /\ SHA256Hex(cak.password) # cak.password
                    /\ \A i \in 1..Len(cak.req[1].Header["Authorization"]) :
                          cak.req[1].Header["Authorization"][i]
                              # BasicAuth(cak.emailAddress, cak.password)

\* The test's call: the plaintext "password" for example@test.com, sent as
\* the Basic Auth value of the email and the password's SHA-256 in hex.
C21_Witness ==
    /\ CreateRequested
    /\ ~cak.pwPrehashed
    /\ cak.emailAddress = "example@test.com"
    /\ cak.password = "password"
    /\ HeaderGet(cak.req[1].Header, "Authorization")
          = "Basic ZXhhbXBsZUB0ZXN0LmNvbTo1ZTg4NDg5OGRhMjgwNDcxNTFkMGU1NmY4ZGM2MjkyNzczNjAzZDBkNmFhYmJkZDYyYTExZWY3MjFkMTU0MmQ4"

\* C22: for every email and every expiryDays, CreateAccessKey sends a POST
\* whose path is /<version>/users/<email>/accessKeys, the email being one
\* segment of the path (URL-encoded on the wire), and whose query is exactly
\* expires=1&numDaysTillExpiry=<expiryDays>.
C22_CreateURLOfEveryEmail ==
    CreateRequested
        => /\ cak.req[1].Method = "POST"
           /\ cak.req[1].URL.Path
                 = "/" \o api.Version \o "/users/" \o cak.emailAddress
                       \o "/accessKeys"
           /\ cak.req[1].URL.RawQuery
                 = "expires=1&numDaysTillExpiry=" \o ToString(cak.expiryDays)

(***************************************************************************)
(* properties of AccessKey.CanSign                                         *)
(***************************************************************************)

\* C23: CanSign returns true exactly when the id and the secret of the key
\* are both non-empty, whatever its email and its expiry.
C23_CanSignIffIdAndSecret ==
    vu.called
        => /\ vu.result <=> (Len(vu.a.ID) > 0 /\ Len(vu.a.SecretAccessKey) > 0)
           /\ \A k \in CanSignKeys :
                 (k.ID = vu.a.ID /\ k.SecretAccessKey = vu.a.SecretAccessKey)
                     => CanSign(k) = vu.result

\* CanSign returned false for a key with an id, an email and an expiry, and
\* no secret.
C23_Witness ==
    /\ vu.called
    /\ vu.a.ID = "AccessKeyID"
    /\ vu.a.SecretAccessKey = ""
    /\ vu.a.Email = "example@test.com"
    /\ vu.a.ExpiryDate # ZeroTime
    /\ ~vu.result

(***************************************************************************)
(* properties of the mock APICaller                                        *)
(***************************************************************************)

\* The invocation of goroutine p is past the checks of initNextCall.
PastCheck(p) == invs[p].pc \in {"args", "end", "done", "panic", "panicked"}

\* The invocation of p has released the lock to panic, or has panicked.
Panicking(p) == invs[p].pc \in {"panic", "panicked"}

\* When initNextCall looked, every expected call had been made, or the next
\* one was expected for another method than the one p invoked.
NothingExpected(p) ==
    \/ invs[p].ncalls <= invs[p].made
    \/ mock.Calls[invs[p].made + 1].fn # invs[p].fn

\* The lock of the mock is free, or held by an invocation that is under way.
LockHeldByRunningCall ==
    mock.mu # <<>> => invs[mock.mu[1]].pc \in {"check", "args", "end"}

\* The steps in which an invocation panics, from the check to the panic,
\* leave CallsMade and the expected calls as they are, and the lock free
\* from the first of them on.
PanicLeavesMock ==
    \A p \in Invokers :
        /\ (~Panicking(p) /\ Panicking(p)')
              => /\ mock'.CallsMade = mock.CallsMade
                 /\ mock'.Calls = mock.Calls
                 /\ mock'.mu = <<>>
        /\ (invs[p].pc = "panic" /\ invs'[p].pc = "panicked") => mock' = mock

\* C24: an invocation of Do, Get or CreateAccessKey on the mock APICaller
\* panics when every expected call has been made or when the next expected
\* call is for another method; the panic leaves CallsMade unchanged and the
\* lock released, so that later AddExpectedCall, NumCallsMade and
\* AllCallsMade calls are not blocked.
C24_PanicReleasesTheMock ==
    /\ [](\A p \in Invokers :
             PastCheck(p) => (Panicking(p) <=> NothingExpected(p)))
    /\ [](\A p \in Invokers : Panicking(p) => mock.mu # <<p>>)
    /\ []LockHeldByRunningCall
    /\ [][PanicLeavesMock]_vars

\* An invocation panicked because another method was expected, and the test
\* then added an expected call.
C24_Witness ==
    /\ \E p \in Invokers :
          /\ invs[p].pc = "panicked"
          /\ invs[p].ncalls > invs[p].made
          /\ invs[p].panic = PanicWrongMethod(0, invs[p].fn, mock.Calls[1].fn)
    /\ seen # <<>>
    /\ seen[1].op = "AddExpectedCall"
    /\ seen[1].panicked >= 1
    /\ mock.CallsMade = 0

\* The goroutines whose invocation is between initNextCall and endCall.
Running == {p \in Invokers : invs[p].pc \in {"check", "args", "end"}}

\* The goroutines whose invocation took an expected call.
Started == {p \in Invokers : invs[p].idx > 0}

\* The invocations are serialised: the one under way holds the lock, and the
\* invocations that took an expected call took the first, the second, ... in
\* the order they started.
Serialised ==
    /\ \A p \in Running : mock.mu = <<p>>
    /\ {invs[p].idx : p \in Started} = 1..Cardinality(Started)
    /\ \A p \in Started : invs[p].idx = invs[p].made + 1

\* The invocation of p, once it has its values to return, has recorded its
\* arguments in the expected call it took and returns that call's response.
RecordedAndAnswered(p) ==
    invs[p].pc \in {"end", "done"}
        => /\ mock.Calls[invs[p].idx].CallMade
           /\ mock.Calls[invs[p].idx].fn = invs[p].fn
           /\ mock.Calls[invs[p].idx].ACArgs
                 = RecordArgs(ZeroACArgs, invs[p].fn, InvokerArgs(p))
           /\ invs[p].ret
                 = <<ReturnValues(invs[p].fn, mock.Calls[invs[p].idx].ACRep)>>

\* CallsMade is the number of invocations that have returned, and no more
\* than the number of expected calls.
CallsMadeCounts ==
    /\ mock.CallsMade = Cardinality({p \in Invokers : invs[p].pc = "done"})
    /\ mock.CallsMade <= Len(mock.Calls)

\* What the test read was true when it read it.
SeenIsTrue ==
    seen # <<>>
        => /\ seen[1].op = "NumCallsMade"
                 => seen[1].value = ToString(seen[1].returned)
           /\ seen[1].op = "AllCallsMade"
                 => seen[1].value = ToString(seen[1].returned = seen[1].ncalls)

\* C25: under every interleaving of invocations of the mock APICaller, the
\* invocations are serialised from initNextCall to endCall: the k-th to start
\* records its arguments in the k-th expected call and returns its response,
\* CallsMade, as NumCallsMade shows it, is the number of invocations that
\* have returned and never above the number of expected calls, and
\* AllCallsMade is true exactly when the two are equal.
C25_InvocationsAreSerialised ==
    /\ Serialised
    /\ \A p \in Invokers : RecordedAndAnswered(p)
    /\ CallsMadeCounts
    /\ SeenIsTrue

\* Two goroutines invoked the mock while two calls were expected, each took
\* one of them, and AllCallsMade then returned true.
C25_Witness ==
    /\ \A p \in Invokers : invs[p].pc = "done"
    /\ \E p \in Invokers, q \in Invokers :
          /\ invs[p].idx = 1 /\ invs[q].idx = 2
          /\ invs[p].fn # invs[q].fn
          /\ mock.Calls[1].ACArgs # mock.Calls[2].ACArgs
    /\ seen # <<>>
    /\ seen[1].op = "AllCallsMade"
    /\ seen[1].value = "TRUE"
    /\ seen[1].returned = 2

(***************************************************************************)
(* properties of the recorded failure time under concurrent calls          *)
(***************************************************************************)

\* The Do call of caller p has returned after its exchange failed.
FailedAndReturned(p) ==
    /\ calls[p].op = "Do"
    /\ calls[p].done
    /\ calls[p].pc \in {"idle", "read"}
    /\ ExchangeFailed(calls[p])

\* The time x is the latest of the failure times the callers obtained.
LatestFailureTime(x) ==
    /\ \E p \in callers : x = calls[p].t
    /\ \A p \in callers : calls[p].t.t <= x.t

\* The recorded time does not move backwards.
LastTimeoutAdvances == lastTimeout'.t >= lastTimeout.t

\* C26: after all of several concurrently failing Do calls on one dispatcher
\* have returned, LastTimeout returns the latest of the failure times the
\* calls obtained from the time source, and the recorded time never moves
\* backwards from one LastTimeout call to the next.
C26_LastTimeoutIsLatestFailure ==
    /\ []((\A p \in callers : FailedAndReturned(p))
             => LatestFailureTime(lastTimeout))
    /\ [][LastTimeoutAdvances]_vars

(***************************************************************************)
(* further properties of APISigner.Sign                                    *)
(***************************************************************************)

\* C27: after a successful Sign the Authorization header and the X-Els-Date
\* header of the request each hold exactly one value, the one this call
\* computed, also when the request carried such headers before.
C27_SignedHeadersHoldOneValue ==
    Signed
        => /\ r[1].Header["Authorization"] = <<ret[1].auth>>
           /\ r[1].Header["X-Els-Date"] = <<ret[1].utcStr>>

\* The request rq has a body that reads as zero bytes.
HasEmptyBody(rq) ==
    /\ rq.Body # <<>>
    /\ ReadAll(rq.Body[1]).err = NilError
    /\ ReadAll(rq.Body[1]).b = ""

\* C28: a request whose body is present but holds zero bytes is signed like a
\* request without a body: the digest field and the content-type field of the
\* canonical string are both empty.
C28_EmptyBodySignedAsNoBody ==
    (Signed /\ HasEmptyBody(ret[1].pre[1]))
        => ret[1].fingerprint
              = ret[1].pre[1].Method \o "\n" \o "\n" \o "\n"
                \o ret[1].utcStr \o "\n" \o ret[1].pre[1].URL.Path

\* The last Sign call was given no request.
SignedNil == Called /\ ret[1].pre = <<>>

\* The last Sign call was given a request whose path lacks the prefix.
SignedInvalidPath == Called /\ ret[1].pre # <<>> /\ ~SignedValidPath

\* C29: Sign checks its preconditions in a fixed order and reports the first
\* that fails: a nil request gives ErrNoRequest; otherwise a path without the
\* prefix "/1.0/" gives ErrRequestInvalidURL, also when the credential has
\* expired; only a request that passes both can give ErrExpiredAccessKey.
C29_FirstFailingPreconditionIsReported ==
    Called
        => /\ SignedNil <=> ret[1].err = ErrNoRequest
           /\ SignedInvalidPath <=> ret[1].err = ErrRequestInvalidURL
           /\ ret[1].err = ErrExpiredAccessKey
                 <=> /\ SignedValidPath
                     /\ ~ValidUntil(accessKey, ret[1].now, Minute)

\* C29 witness: Sign was given no request while the credential had expired,
\* and reported the missing request.
C29_Witness ==
    /\ SignedNil
    /\ accessKey.ExpiryDate # ZeroTime
    /\ accessKey.ExpiryDate.t < ret[1].now.t
    /\ ret[1].err = ErrNoRequest
    /\ r = <<>>

\* The last Sign call refused the request for its path or for the credential.
SignRefused ==
    /\ Called
    /\ ret[1].err \in {ErrRequestInvalidURL, ErrExpiredAccessKey}

\* C30: when Sign returns ErrRequestInvalidURL or ErrExpiredAccessKey, the
\* request is as it was before the call: no header has been added or changed,
\* and the body has not been read or replaced.
C30_RefusedRequestIsUntouched ==
    SignRefused
        => /\ r = ret[1].pre
           /\ r[1].Header = ret[1].pre[1].Header
           /\ r[1].Body = ret[1].pre[1].Body

\* C30 witness: Sign refused, for an expired credential, a request that was
\* signed before and holds a body: its headers and its unread body are those
\* it had.
C30_Witness ==
    /\ SignRefused
    /\ ret[1].err = ErrExpiredAccessKey
    /\ ret[1].pre[1].Body = <<NewBuffer(JSONBody)>>
    /\ Len(ret[1].pre[1].Header["X-Els-Date"]) = 1
    /\ r[1].Body = <<NewBuffer(JSONBody)>>
    /\ Len(r[1].Header["X-Els-Date"]) = 1

(***************************************************************************)
(* properties of URL completion across calls and API versions              *)
(***************************************************************************)

\* The caller p passes the request of its first Do call to Do again, as a
\* first-party request, and the call goes up to the exchange.
SecondFirstPartyExchange(p) ==
    /\ calls[p].op = "Do"
    /\ calls[p].attempts = 1
    /\ calls[p].done
    /\ calls'[p].attempts = 2
    /\ calls'[p].isELSAPI
    /\ calls'[p].pc = "exchange"

\* The path "/" + version + relative path of the request the caller p first
\* passed to Do.
FirstCompletedPath(p) == "/" \o api.Version \o calls[p].pre[1].URL.Path

\* C31: URL completion is stable across repeated calls: when the same request
\* is passed to Do with isELSAPI = true a second time, the second exchange
\* targets the path "/" + version + relative path, as the first did, and not
\* a path with the version prefix applied twice.
C31_CompletionIsStableOnRetry ==
    [][\A p \in callers :
          SecondFirstPartyExchange(p)
              => calls'[p].sent[1].URL.Path = FirstCompletedPath(p)]_vars

\* The call c is the first Do call of a first-party request, with an
\* APISigner whose credential is valid at the time Do was entered.
FirstPartySignedCall(c) ==
    /\ DoCalled(c)
    /\ c.attempts = 1
    /\ c.isELSAPI
    /\ c.signer = APISigner
    /\ ValidUntil(accessKey, TimeProviderNow(c.start), Minute)

\* C32: for every API version a dispatcher can be constructed with, a
\* first-party request whose URL was completed by Do satisfies the
\* APISigner's version-prefix precondition: Do with an APISigner holding a
\* valid credential does not fail with ErrRequestInvalidURL.
C32_CompletedURLPassesTheSigner ==
    \A p \in callers :
        FirstPartySignedCall(calls[p])
            => calls[p].err # ErrRequestInvalidURL

(***************************************************************************)
(* properties of Sign and the credential's ability to sign                 *)
(***************************************************************************)

\* C33: Sign succeeds, returning nil and adding an Authorization header, only
\* when the credential the signer holds satisfies CanSign: it has an ID and
\* a secret, and no request is signed with an empty ID or an empty secret.
C33_SignOnlyWithAKeyThatCanSign ==
    (Signed /\ r[1].Header["Authorization"] # <<>>) => CanSign(accessKey)

(***************************************************************************)
(* properties of the context Do makes for a call                           *)
(***************************************************************************)

\* The call c was made without a context and has returned a response.
ReturnedResponseUnderDefault(c) ==
    /\ DoCalled(c)
    /\ c.ctxArg = <<>>
    /\ c.synth
    /\ c.done
    /\ c.resp # <<>>
    /\ c.err = NilError

\* C34: when Do is called without a context and returns a response, the
\* context it made for the call has not been cancelled when Do returns, so
\* that the caller can still read the response body under it.
C34_DefaultContextOutlivesDo ==
    \A p \in callers :
        ReturnedResponseUnderDefault(calls[p]) => ~calls[p].ctx.cancelled

====
